---- MODULE Spec2Model ----
(***************************************************************************)
(* Fractex: voxel cells -> box mesh compiler (game::terrain), its vertex  *)
(* layout check (game::terrain_vertex) and the streaming / edit triggers  *)
(* of game::world.                                                         *)
(*                                                                         *)
(* Units.  Cell and vertex coordinates are integers counted in halves of  *)
(* a world unit (0.5f == 1), so a box of half extent 0.5 is center -/+ 1. *)
(* The homogeneous w of a vertex is kept unscaled (1.0f == 1).  UV values *)
(* are integers counted in thousandths (0.124f == 124, 1.0f == 1000).     *)
(* Arrays are functions over 0 .. len-1, as the std::vector they model.   *)
(***************************************************************************)
EXTENDS Integers, Sequences, FiniteSets, TLC

VARIABLES
    _cell_buffer,   \* terrain::_cell_buffer, vec4 cells <<x, y, z, atlas>>
    _parent,        \* terrain::_parent, the mesh of four arrays
    _gb,            \* terrain::_gb, the view (geometry) vertex buffer
    _pb,            \* terrain::_pb, the preview (placemark) vertex buffer
    calls,          \* vertex-buffer calls made by the handler(s) that ran last
    thrown,         \* TRUE iff the handler that ran last ended by an exception
    op,             \* name of the handler that ran last
    origin,         \* history: the cells each buffer's staged mesh was compiled from
    again,          \* history: the last compile repeated an earlier one
    pc,             \* position inside a handler that is modelled in steps
    work,           \* per work item of worker.run: blocks of set_cell done
    begun,          \* history: _parent as the parallel run found it
    touched,        \* history: <<array, slot, item>> written during the run
    fetched,        \* history: <<item, cell slot>> read during the run
    mesh_in,        \* the mesh handed to add_mesh when check is exercised alone
    _grid,          \* world::_grid: cells, recent chunk key, atlas id
    _view_chunks,   \* world::_view_chunks, the chunk keys of the last view list
    _scale,         \* world::_scale: x component on the row grid, <<x, y, z>> for the cursor
    position,       \* position of the character body, in half cells
    wop,            \* name of the world operation that ran last
    current_chunk,  \* history: what chunk_key gave the last world::update
    _cached_offset, \* world::_cached_offset, <<x, y, z>> of +1 / -1
    _preview_offset, \* world::_preview_offset
    _edit_mode,     \* world::_edit_mode
    edited,         \* history: the arguments of the last _grid.set_geometry call
    copy_data,      \* the float buffer terrain_vertex::copy writes to
    mesh_offset,    \* terrain_vertex::copy: the float offset of the mesh in data
    gun,            \* the fields of a gun_state
    now,            \* the reading of high_resolution_clock, in milliseconds
    ghist,          \* history: the last gun_state call, its argument and its result
    player,         \* the fields of a player that its handlers read and write
    phist           \* history: the last player call and the forces it applied

tvars == <<_cell_buffer, _parent, _gb, _pb, calls, thrown, op>>
hvars == <<origin, again>>
rvars == <<pc, work, begun, touched, fetched>>
wvars == <<_grid, _view_chunks, _scale, position, wop, current_chunk>>
evars == <<_cached_offset, _preview_offset, _edit_mode, edited>>
cvars == <<copy_data, mesh_offset>>
gvars == <<gun, now, ghist>>
pvars == <<player, phist>>
ovars == <<evars, cvars, gvars, pvars>>
vars == <<tvars, hvars, rvars, mesh_in, wvars, ovars>>

----------------------------------------------------------------------------
(* std::vector as a function over 0 .. n-1 *)

Size(a) == Cardinality(DOMAIN a)

EmptyVec == [k \in {} |-> 0]

\* std::vector::resize(n): keeps the first n elements, value-initialises the rest
Resize(a, n, zero) == [k \in 0 .. n - 1 |-> IF k \in DOMAIN a THEN a[k] ELSE zero]

\* std::vector::push_back
PushBack(a, v) == [k \in 0 .. Size(a) |-> IF k \in DOMAIN a THEN a[k] ELSE v]

\* a run of writes a[start] = vals[1], a[start + 1] = vals[2], ... (the code's
\* a[v++] = ... and a[i + start] = vals[i]); every run the code makes lies
\* inside the array (a write outside it would be undefined)
Store(a, start, vals) ==
    [k \in DOMAIN a |->
        IF k >= start /\ k < start + Len(vals) THEN vals[k - start + 1] ELSE a[k]]

\* the slots such a run writes
Slots(start, vals) == start .. start + Len(vals) - 1

Zero4 == <<0, 0, 0, 0>>
Zero3 == <<0, 0, 0>>
Zero2 == <<0, 0>>

EmptyMesh == [vertex |-> EmptyVec, uv |-> EmptyVec, normal |-> EmptyVec, index |-> EmptyVec]

----------------------------------------------------------------------------
(* terrain::create_uvs *)

\* the 24 unit corner coordinates the table starts from
unit_uvs ==
    << <<1, 0>>, <<0, 1>>, <<0, 0>>, <<1, 0>>, <<0, 1>>, <<0, 0>>,
       <<1, 0>>, <<0, 1>>, <<0, 0>>, <<1, 0>>, <<0, 1>>, <<0, 0>>,
       <<0, 0>>, <<1, 1>>, <<0, 1>>, <<1, 0>>, <<0, 1>>, <<0, 0>>,
       <<1, 1>>, <<1, 1>>, <<1, 1>>, <<1, 1>>, <<1, 0>>, <<1, 1>> >>

atlas_case_full_tile(dx, dy) ==
    [i \in 0 .. 23 |-> <<unit_uvs[i + 1][1] * 125 + dx, unit_uvs[i + 1][2] * 125 + dy>>]
\* one case of the switch: uv *= 0.124; uv.x += dx; uv.y += dy
atlas_case(dx, dy) ==
    [i \in 0 .. 23 |-> <<unit_uvs[i + 1][1] * 124 + dx, unit_uvs[i + 1][2] * 124 + dy>>]

create_uvs(atlas_id) ==
    CASE atlas_id = 0 -> atlas_case(1, 876)
      [] atlas_id = 1 -> atlas_case(126, 876)
      [] atlas_id = 2 -> atlas_case(251, 876)
      [] atlas_id = 3 -> atlas_case(376, 876)
      [] atlas_id = 4 -> atlas_case(501, 876)
      [] atlas_id = 5 -> atlas_case(626, 876)
      [] atlas_id = 6 -> atlas_case(751, 876)
      [] atlas_id = 7 -> atlas_case(876, 876)
      [] atlas_id = 8 -> atlas_case(1, 751)
      [] atlas_id = 9 -> atlas_case(126, 751)
      [] atlas_id = 10 -> atlas_case(251, 751)
      [] atlas_id = 11 -> atlas_case(376, 751)
      [] atlas_id = 12 -> atlas_case(501, 751)
      [] atlas_id = 13 -> atlas_case(626, 751)
      [] atlas_id = 14 -> atlas_case(751, 751)
      [] atlas_id = 15 -> atlas_case(876, 751)
      \* no case matches: the unit coordinates are returned unscaled
      [] OTHER -> [i \in 0 .. 23 |-> <<unit_uvs[i + 1][1] * 1000, unit_uvs[i + 1][2] * 1000>>]

----------------------------------------------------------------------------
(* terrain::create_box and terrain::set_cell *)

\* a box whose min corner is the cell position
create_box_from_min(center) ==
    [min |-> <<center[1], center[2], center[3]>>,
     max |-> <<center[1] + 2, center[2] + 2, center[3] + 2>>]

\* min and max corner of the box of half extent 0.5 around center
create_box(center) ==
    [min |-> <<center[1] - 1, center[2] - 1, center[3] - 1>>,
     max |-> <<center[1] + 1, center[2] + 1, center[3] + 1>>]

box_corners_slip ==
    << <<0, 0, 0>>, <<1, 0, 1>>, <<0, 0, 1>>,
       <<1, 1, 1>>, <<0, 1, 0>>, <<0, 1, 1>>,
       <<0, 1, 1>>, <<0, 0, 0>>, <<0, 0, 1>>,
       <<0, 1, 0>>, <<1, 0, 0>>, <<0, 0, 0>>,
       <<1, 0, 0>>, <<1, 1, 1>>, <<1, 0, 1>>,
       <<0, 0, 1>>, <<1, 1, 1>>, <<0, 1, 1>>,
       <<1, 0, 0>>, <<1, 1, 0>>, <<0, 1, 0>>,
       <<1, 1, 0>>, <<0, 1, 0>>, <<1, 0, 1>> >>
\* which corner (0 = min, 1 = max) each of the 24 vertices takes on x, y, z
box_corners ==
    << <<0, 0, 0>>, <<1, 0, 1>>, <<0, 0, 1>>,
       <<1, 1, 1>>, <<0, 1, 0>>, <<0, 1, 1>>,
       <<0, 1, 1>>, <<0, 0, 0>>, <<0, 0, 1>>,
       <<0, 1, 0>>, <<1, 0, 0>>, <<0, 0, 0>>,
       <<1, 0, 0>>, <<1, 1, 1>>, <<1, 0, 1>>,
       <<0, 0, 1>>, <<1, 1, 1>>, <<0, 1, 1>>,
       <<1, 0, 0>>, <<1, 1, 0>>, <<0, 1, 0>>,
       <<1, 1, 0>>, <<1, 1, 0>>, <<1, 0, 1>> >>

box_indices_flipped ==
    << 0, 2, 1, 3, 4, 5, 6, 7, 8, 9, 10, 11, 12, 13, 14, 15, 16, 17,
       0, 18, 1, 3, 19, 4, 6, 20, 7, 9, 21, 10, 12, 22, 13, 15, 23, 16 >>
\* the offsets added to vertex_start by the 36 index writes
box_indices ==
    << 0, 1, 2, 3, 4, 5, 6, 7, 8, 9, 10, 11, 12, 13, 14, 15, 16, 17,
       0, 18, 1, 3, 19, 4, 6, 20, 7, 9, 21, 10, 12, 22, 13, 15, 23, 16 >>

\* the 24 normals written from vertex_start on
box_normals ==
    << <<0, -1, 0>>, <<0, -1, 0>>, <<0, -1, 0>>,
       <<0, 1, 0>>, <<0, 1, 0>>, <<0, 1, 0>>,
       <<-1, 0, 0>>, <<-1, 0, 0>>, <<-1, 0, 0>>,
       <<0, 0, -1>>, <<0, 0, -1>>, <<0, 0, -1>>,
       <<1, 0, 0>>, <<1, 0, 0>>, <<1, 0, 0>>,
       <<0, 0, 1>>, <<0, 0, 1>>, <<0, 0, 1>>,
       <<0, -1, 0>>, <<0, 1, 0>>, <<-1, 0, 0>>,
       <<0, 0, -1>>, <<1, 0, 0>>, <<0, 0, 1>> >>

vertex_start_overlap(cell) == 23 * cell
vertex_start(cell) == 24 * cell

index_start_overlap(cell) == 35 * cell
index_start(cell) == 36 * cell

\* the element of _cell_buffer that set_cell(cell) unpacks
unpack_slot(cell) == cell

\* block 1 of set_cell: the 24 vertices written from vertex_start on
vertex_vals(buf, cell) ==
    LET unpack == buf[unpack_slot(cell)]
        b == create_box(<<unpack[1], unpack[2], unpack[3]>>)
        pick(c, axis) == IF c = 0 THEN b.min[axis] ELSE b.max[axis]
    IN  [j \in 1 .. 24 |->
            <<pick(box_corners[j][1], 1), pick(box_corners[j][2], 2),
              pick(box_corners[j][3], 3), 1>>]

\* block 2 of set_cell: uv[i + vertex_start] = uvs[i]
uv_vals(buf, cell) ==
    LET unpack == buf[unpack_slot(cell)]
        uvs == create_uvs(unpack[4])
    IN  [j \in 1 .. 24 |-> uvs[j - 1]]

\* block 3 of set_cell: the 36 indices written from index_start on (uint32_t
\* values; 24 * cell stays far below 2^32 for any cell count that fits memory)
index_vals(buf, cell) == [j \in 1 .. 36 |-> box_indices[j] + vertex_start(cell)]

normal_vals_all_up(buf, cell) == [j \in 1 .. 24 |-> <<0, 1, 0>>]
\* block 4 of set_cell: the 24 normals written from vertex_start on
normal_vals(buf, cell) == box_normals

Blocks == 1 .. 4

block_array(blk) ==
    CASE blk = 1 -> "vertex" [] blk = 2 -> "uv" [] blk = 3 -> "index" [] blk = 4 -> "normal"

block_start(cell, blk) == IF blk = 3 THEN index_start(cell) ELSE vertex_start(cell)

block_vals(buf, cell, blk) ==
    CASE blk = 1 -> vertex_vals(buf, cell)
      [] blk = 2 -> uv_vals(buf, cell)
      [] blk = 3 -> index_vals(buf, cell)
      [] blk = 4 -> normal_vals(buf, cell)

\* one block of set_cell(cell) applied to the mesh
set_cell_block(mesh, buf, cell, blk) ==
    LET a == block_array(blk)
    IN  [mesh EXCEPT ![a] = Store(mesh[a], block_start(cell, blk), block_vals(buf, cell, blk))]

\* set_cell(cell): its four blocks in program order
set_cell(mesh, buf, cell) ==
    set_cell_block(set_cell_block(set_cell_block(set_cell_block(mesh, buf, cell, 1),
                                                 buf, cell, 2), buf, cell, 3), buf, cell, 4)

----------------------------------------------------------------------------
(* terrain_vertex::check and the min::vertex_buffer the terrain owns *)

\* terrain_vertex::check throws iff this holds
check_throws_uv_only(m) == Size(m.uv) # Size(m.vertex)
check_throws(m) ==
    LET vert_size == Size(m.vertex)
    IN  Size(m.uv) # vert_size \/ Size(m.normal) # vert_size

\* a vertex buffer: the meshes staged since the last clear (data), and the
\* meshes the last upload sent to the GPU (gpu)
EmptyBuffer == [data |-> <<>>, gpu |-> <<>>]

vb_clear(b) == [b EXCEPT !.data = <<>>]

\* add_mesh runs the vertex type's check first and copies the mesh only if it passes
vb_add_mesh(b, m) == IF check_throws(m) THEN b ELSE [b EXCEPT !.data = Append(@, m)]

\* upload sends the staged data as a whole
vb_upload(b) == [b EXCEPT !.gpu = b.data]

RECURSIVE elements(_)
elements(data) == IF data = <<>> THEN 0 ELSE Size(Head(data).index) + elements(Tail(data))

\* draw_all: the number of elements the draw call is issued for
vb_draw_all(b) == elements(b.data)

----------------------------------------------------------------------------
(* terrain: populate_cell_buffer, allocate_mesh_buffer, the two uploads *)

\* a chunk or preview mesh as the grid hands it over: one vec4 per cell
cell_mesh(cells) == [EmptyMesh EXCEPT !.vertex = cells]

populate_cell_buffer(buf, child) ==
    LET size == Size(child.vertex)
    IN  [k \in 0 .. Size(buf) + size - 1 |->
            IF k < Size(buf) THEN buf[k] ELSE child.vertex[k - Size(buf)]]

RECURSIVE populate_all(_, _)
populate_all(buf, children) ==
    IF children = <<>> THEN buf
    ELSE populate_all(populate_cell_buffer(buf, Head(children)), Tail(children))

allocate_grows_only(mesh, buf) ==
    LET grow(a, n, zero) == IF Size(a) >= n THEN a ELSE Resize(a, n, zero)
    IN  [vertex |-> grow(mesh.vertex, Size(buf) * 24, Zero4),
         uv |-> grow(mesh.uv, Size(buf) * 24, Zero2),
         normal |-> grow(mesh.normal, Size(buf) * 24, Zero3),
         index |-> grow(mesh.index, Size(buf) * 36, 0)]
allocate_skips_normal(mesh, buf) ==
    LET size24 == Size(buf) * 24
        size36 == Size(buf) * 36
    IN  [vertex |-> Resize(mesh.vertex, size24, Zero4),
         uv |-> Resize(mesh.uv, size24, Zero2),
         normal |-> mesh.normal,
         index |-> Resize(mesh.index, size36, 0)]
allocate_to_cell_count(mesh, buf) ==
    [vertex |-> Resize(mesh.vertex, Size(buf), Zero4),
     uv |-> Resize(mesh.uv, Size(buf), Zero2),
     normal |-> Resize(mesh.normal, Size(buf), Zero3),
     index |-> Resize(mesh.index, Size(buf), 0)]
allocate_mesh_buffer(mesh, buf) ==
    LET size24 == Size(buf) * 24
        size36 == Size(buf) * 36
    IN  [vertex |-> Resize(mesh.vertex, size24, Zero4),
         uv |-> Resize(mesh.uv, size24, Zero2),
         normal |-> Resize(mesh.normal, size24, Zero3),
         index |-> Resize(mesh.index, size36, 0)]

\* the work items of one run, each executed to its end, in the given order
RECURSIVE run_in_order(_, _, _)
run_in_order(mesh, buf, order) ==
    IF order = <<>> THEN mesh
    ELSE run_in_order(set_cell(mesh, buf, Head(order)), buf, Tail(order))

\* the terrain object as a value, so that a caller can run several handlers
Terrain == [cell_buffer |-> _cell_buffer, parent |-> _parent, gb |-> _gb, pb |-> _pb,
            calls |-> calls, thrown |-> thrown, op |-> op]

geometry_begin_keeps_cells(t, children) ==
    LET buf == populate_all(t.cell_buffer, children)
    IN  [t EXCEPT !.gb = vb_clear(t.gb),
                  !.calls = Append(t.calls, "gb.clear"),
                  !.cell_buffer = buf,
                  !.parent = allocate_mesh_buffer(t.parent, buf),
                  !.op = "upload_geometry",
                  !.thrown = FALSE]
\* upload_geometry up to the point where the parallel run starts
geometry_begin(t, children) ==
    LET buf == populate_all(EmptyVec, children)
    IN  [t EXCEPT !.gb = vb_clear(t.gb),
                  !.calls = Append(t.calls, "gb.clear"),
                  !.cell_buffer = buf,
                  !.parent = allocate_mesh_buffer(t.parent, buf),
                  !.op = "upload_geometry",
                  !.thrown = FALSE]

geometry_end_skips_upload(t) ==
    IF Size(t.parent.vertex) > 0
    THEN [t EXCEPT !.gb = vb_upload(vb_add_mesh(t.gb, t.parent)),
                   !.calls = t.calls \o <<"gb.add_mesh", "gb.bind", "gb.upload">>]
    ELSE t
\* upload_geometry from the return of the parallel run to its end
geometry_end(t) ==
    LET adds == Size(t.parent.vertex) > 0
        bad == adds /\ check_throws(t.parent)
    IN  IF bad
        THEN [t EXCEPT !.calls = Append(t.calls, "gb.add_mesh"), !.thrown = TRUE]
        ELSE [t EXCEPT !.gb = vb_upload(IF adds THEN vb_add_mesh(t.gb, t.parent) ELSE t.gb),
                       !.calls = t.calls \o (IF adds THEN <<"gb.add_mesh">> ELSE <<>>)
                                         \o <<"gb.bind", "gb.upload">>]

\* upload_geometry with the work items run in the given order
upload_geometry(t, children, order) ==
    LET t1 == geometry_begin(t, children)
    IN  geometry_end([t1 EXCEPT !.parent = run_in_order(t1.parent, t1.cell_buffer, order)])

\* the loop of upload_preview runs the cells in ascending order
ascending(n) == [j \in 1 .. n |-> j - 1]

preview_begin_clears_view(t, terrain) ==
    LET buf == populate_cell_buffer(EmptyVec, terrain)
    IN  [t EXCEPT !.gb = vb_clear(t.gb),
                  !.calls = Append(t.calls, "pb.clear"),
                  !.cell_buffer = buf,
                  !.parent = run_in_order(allocate_mesh_buffer(t.parent, buf), buf,
                                          ascending(Size(buf))),
                  !.op = "upload_preview",
                  !.thrown = FALSE]
\* upload_preview up to the end of its loop over the cells
preview_begin(t, terrain) ==
    LET buf == populate_cell_buffer(EmptyVec, terrain)
    IN  [t EXCEPT !.pb = vb_clear(t.pb),
                  !.calls = Append(t.calls, "pb.clear"),
                  !.cell_buffer = buf,
                  !.parent = run_in_order(allocate_mesh_buffer(t.parent, buf), buf,
                                          ascending(Size(buf))),
                  !.op = "upload_preview",
                  !.thrown = FALSE]

\* upload_preview from the end of the loop on: add_mesh, bind, upload
preview_end(t) ==
    LET adds == Size(t.parent.vertex) > 0
        bad == adds /\ check_throws(t.parent)
    IN  IF bad
        THEN [t EXCEPT !.calls = Append(t.calls, "pb.add_mesh"), !.thrown = TRUE]
        ELSE [t EXCEPT !.pb = vb_upload(IF adds THEN vb_add_mesh(t.pb, t.parent) ELSE t.pb),
                       !.calls = t.calls \o (IF adds THEN <<"pb.add_mesh">> ELSE <<>>)
                                         \o <<"pb.bind", "pb.upload">>]

upload_preview(t, terrain) == preview_end(preview_begin(t, terrain))

\* the terrain after construction: empty buffers, nothing compiled
NewTerrain == [cell_buffer |-> EmptyVec, parent |-> EmptyMesh, gb |-> EmptyBuffer,
               pb |-> EmptyBuffer, calls |-> <<>>, thrown |-> FALSE, op |-> "terrain"]

SetTerrainInit(t) ==
    /\ _cell_buffer = t.cell_buffer
    /\ _parent = t.parent
    /\ _gb = t.gb
    /\ _pb = t.pb
    /\ calls = t.calls
    /\ thrown = t.thrown
    /\ op = t.op

SetTerrain(t) ==
    /\ _cell_buffer' = t.cell_buffer
    /\ _parent' = t.parent
    /\ _gb' = t.gb
    /\ _pb' = t.pb
    /\ calls' = t.calls
    /\ thrown' = t.thrown
    /\ op' = t.op

\* the terrain on its own: no world owns it
NoWorld ==
    /\ _grid = [cells |-> EmptyVec, recent |-> 0, atlas |-> 0]
    /\ _view_chunks = <<>>
    /\ _scale = 1
    /\ position = 0
    /\ wop = "none"
    /\ current_chunk = [key |-> 0, is_valid |-> FALSE]

\* the objects that take no part when the terrain or the world runs alone
NoEdit ==
    /\ _cached_offset = <<1, 1, 1>>
    /\ _preview_offset = <<1, 1, 1>>
    /\ _edit_mode = FALSE
    /\ edited = <<>>

NoCopy == copy_data = EmptyVec /\ mesh_offset = 0

\* 2^32 - 1 and smaller numbers as <<high 16 bits, low 16 bits>>
U32(n) == <<n \div 65536, n % 65536>>

\* gun_state::gun_state(); a default time_point is the epoch of the clock
NewGun ==
    [_charge |-> 0, _cool |-> 0, _energy |-> U32(0),
     _beam_mode |-> TRUE, _fire_mode |-> TRUE, _shoot_cooldown |-> FALSE]

NoCall == [call |-> "none", id |-> 0, ret |-> FALSE, calls |-> 0]

NoGun == gun = NewGun /\ now = 0 /\ ghist = NoCall

_health_cap == 100

\* player::player(); _land_vel and _hook are default vectors
NewPlayer ==
    [_land_vel |-> Zero3, _jump_count |-> 0, _land_count |-> 0,
     _airborn |-> FALSE, _falling |-> FALSE, _hooked |-> FALSE, _jet |-> FALSE,
     _landed |-> FALSE, _health |-> _health_cap, _dead |-> FALSE]

\* no call yet: no landing has been detected, no fall has been seen
NoForces ==
    [call |-> "none", landed |-> FALSE, v |-> Zero3, forces |-> <<>>, jumps |-> 0,
     armed |-> TRUE, fallvel |-> Zero3]

NoPlayer == player = NewPlayer /\ phist = NoForces

NoOthers == NoEdit /\ NoCopy /\ NoGun /\ NoPlayer

----------------------------------------------------------------------------
(* Inputs of the terrain: cells, chunk meshes, chunk lists *)

MaxCells == 2

\* two cells that differ in every component: centers (0.5, 0.5, 0.5) and
\* (1.5, 0.5, -0.5), atlas ids 0 and 9
CellSet == {<<1, 1, 1, 0>>, <<3, 1, -1, 9>>}

CellSeqs == UNION {[0 .. n - 1 -> CellSet] : n \in 0 .. MaxCells}

Sub(a, from, to) == [k \in 0 .. to - from - 1 |-> a[from + k]]

\* the chunk lists that hold the cells in this order: no chunk, one chunk, or
\* two chunks cut at any place (either of the two may be empty)
ListsOf(cells) ==
    LET n == Size(cells)
    IN  (IF n = 0 THEN {<<>>} ELSE {})
        \cup {<<cell_mesh(cells)>>}
        \cup {<<cell_mesh(Sub(cells, 0, c)), cell_mesh(Sub(cells, c, n))>> : c \in 0 .. n}

ChunkLists == UNION {ListsOf(cells) : cells \in CellSeqs}

----------------------------------------------------------------------------
(* The terrain driven by its two handlers; upload_geometry in steps *)

Idle(t) ==
    /\ SetTerrain(t)
    /\ pc' = "idle"
    /\ work' = <<>>
    /\ begun' = EmptyMesh
    /\ touched' = {}
    /\ fetched' = {}
    /\ UNCHANGED <<mesh_in, wvars, ovars>>

\* the buffers that hold, on the GPU, a mesh compiled from these cells
Holding(cells) ==
    {b \in {"gb", "pb"} :
        /\ origin[b] = cells
        /\ (IF b = "gb" THEN _gb.gpu ELSE _pb.gpu) # <<>>}

\* a handler that starts now and compiles these cells repeats an earlier compile
\* whose mesh is still on the GPU, with a compile of other cells in between
Repeats(cells) == Holding(cells) # {} /\ _cell_buffer # cells

Init ==
    /\ SetTerrainInit(NewTerrain)
    /\ origin = [gb |-> EmptyVec, pb |-> EmptyVec]
    /\ again = FALSE
    /\ pc = "idle"
    /\ work = <<>>
    /\ begun = EmptyMesh
    /\ touched = {}
    /\ fetched = {}
    /\ mesh_in = EmptyMesh
    /\ NoWorld
    /\ NoOthers

\* upload_geometry(index, f) up to worker.run; children = <<f(i) : i in index>>
Begin(children) ==
    /\ pc = "idle"
    /\ LET t == geometry_begin([Terrain EXCEPT !.calls = <<>>], children)
       IN  /\ SetTerrain(t)
           /\ work' = [i \in 0 .. Size(t.cell_buffer) - 1 |-> 0]
           /\ again' = Repeats(t.cell_buffer)
    /\ pc' = "run"
    /\ UNCHANGED <<origin, mesh_in, wvars, ovars>>

UploadGeometryBegin ==
    /\ \E children \in ChunkLists : Begin(children)
    /\ UNCHANGED <<begun, touched, fetched>>

\* a worker executes the work item set_cell(i) of the run, any pending item next
SetCell ==
    /\ pc = "run"
    /\ \E i \in DOMAIN work :
          /\ work[i] = 0
          /\ _parent' = set_cell(_parent, _cell_buffer, i)
          /\ work' = [work EXCEPT ![i] = 4]
    /\ UNCHANGED <<_cell_buffer, _gb, _pb, calls, thrown, op, hvars, pc>>
    /\ UNCHANGED <<begun, touched, fetched, mesh_in, wvars, ovars>>

UploadGeometryEnd_before_join ==
    /\ pc = "run"
    /\ LET t == geometry_end(Terrain)
       IN  Idle(t)
    /\ origin' = [origin EXCEPT !.gb = _cell_buffer]
    /\ UNCHANGED again
\* worker.run has returned: every item is done; add_mesh, bind, upload
UploadGeometryEnd ==
    /\ pc = "run"
    /\ \A i \in DOMAIN work : work[i] = 4
    /\ LET t == geometry_end(Terrain)
       IN  Idle(t)
    /\ origin' = [origin EXCEPT !.gb = _cell_buffer]
    /\ UNCHANGED again

UploadPreview ==
    /\ pc = "idle"
    /\ \E cells \in CellSeqs :
          LET t == upload_preview([Terrain EXCEPT !.calls = <<>>], cell_mesh(cells))
          IN  /\ Idle(t)
              /\ origin' = [origin EXCEPT !.pb = t.cell_buffer]
              /\ again' = Repeats(t.cell_buffer)

Next == UploadGeometryBegin \/ SetCell \/ UploadGeometryEnd \/ UploadPreview

Spec == Init /\ [][Next]_vars

----------------------------------------------------------------------------
(* upload_geometry alone, the work items interleaved block by block, with *)
(* the history of what the run found, wrote and read                      *)

RunBegin ==
    /\ \E children \in ChunkLists : Begin(children)
    /\ begun' = _parent'
    /\ touched' = {}
    /\ fetched' = {}

\* a worker executes the next block of set_cell(i), for any unfinished item i
SetCellBlock ==
    /\ pc = "run"
    /\ \E i \in DOMAIN work :
          LET blk == work[i] + 1
          IN  /\ work[i] < 4
              /\ _parent' = set_cell_block(_parent, _cell_buffer, i, blk)
              /\ work' = [work EXCEPT ![i] = blk]
              /\ touched' = touched \cup
                     {<<block_array(blk), k, i>> :
                         k \in Slots(block_start(i, blk), block_vals(_cell_buffer, i, blk))}
              /\ fetched' = fetched \cup {<<i, unpack_slot(i)>>}
    /\ UNCHANGED <<_cell_buffer, _gb, _pb, calls, thrown, op, hvars, pc, begun, mesh_in, wvars, ovars>>

NextRun == RunBegin \/ SetCellBlock \/ UploadGeometryEnd

SpecRun == Init /\ [][NextRun]_vars

Called(name) == \E j \in 1 .. Len(calls) : calls[j] = name

N == Size(_cell_buffer)

----------------------------------------------------------------------------
(* set_cell alone, applied to one cell drawn from a wider set of cells *)

MaxCoord == 1

MaxAtlas == 15

\* cells with every atlas id of the table and centers on both sides of zero
CellDomain ==
    {<<x, y, z, id>> : x \in -MaxCoord .. MaxCoord, y \in -MaxCoord .. MaxCoord,
                       z \in -MaxCoord .. MaxCoord, id \in 0 .. MaxAtlas}

\* a terrain whose cell buffer holds the one cell and whose mesh is allocated
InitCell ==
    /\ \E cell \in CellDomain :
          LET buf == PushBack(EmptyVec, cell)
          IN  SetTerrainInit([NewTerrain EXCEPT !.cell_buffer = buf,
                                               !.parent = allocate_mesh_buffer(EmptyMesh, buf)])
    /\ origin = [gb |-> EmptyVec, pb |-> EmptyVec]
    /\ again = FALSE
    /\ pc = "cell"
    /\ work = <<>>
    /\ begun = EmptyMesh
    /\ touched = {}
    /\ fetched = {}
    /\ mesh_in = EmptyMesh
    /\ NoWorld
    /\ NoOthers

ApplySetCell ==
    /\ pc = "cell"
    /\ _parent' = set_cell(_parent, _cell_buffer, 0)
    /\ pc' = "set"
    /\ UNCHANGED <<_cell_buffer, _gb, _pb, calls, thrown, op, hvars>>
    /\ UNCHANGED <<work, begun, touched, fetched, mesh_in, wvars, ovars>>

SpecCell == InitCell /\ [][ApplySetCell]_vars

\* the vertices of face f of cell c, as the two triangles of the index list
\* name them: positions 3f .. 3f + 2 and 18 + 3f .. 18 + 3f + 2 of the cell's 36
FaceVertices(c, f) ==
    {_parent.index[36 * c + 3 * f + k] : k \in 0 .. 2}
        \cup {_parent.index[36 * c + 18 + 3 * f + k] : k \in 0 .. 2}

UnitNormals ==
    {<<1, 0, 0>>, <<-1, 0, 0>>, <<0, 1, 0>>, <<0, -1, 0>>, <<0, 0, 1>>, <<0, 0, -1>>}

\* the axis (1, 2 or 3) a unit normal points along
Axis(n) == CHOOSE a \in 1 .. 3 : n[a] # 0

\* C5: each of the 6 faces of a cell is made of block vertices 3f, 3f + 1,
\* 3f + 2 and 18 + f; its 4 vertices carry one and the same normal, which is
\* one of the six unit axis vectors; the 4 vertices lie in one plane (they
\* agree on the coordinate the normal points along); the six faces have six
\* different normals.
C5_FaceNormals ==
    pc = "set" =>
        \A c \in 0 .. N - 1 :
            /\ \A f \in 0 .. 5 :
                   LET vs == FaceVertices(c, f)
                       n == _parent.normal[24 * c + 3 * f]
                   IN  /\ vs = {24 * c + 3 * f, 24 * c + 3 * f + 1,
                                24 * c + 3 * f + 2, 24 * c + 18 + f}
                       /\ n \in UnitNormals
                       /\ \A v \in vs : _parent.normal[v] = n
                       /\ \A v, w \in vs : _parent.vertex[v][Axis(n)] = _parent.vertex[w][Axis(n)]
            /\ {_parent.normal[24 * c + 3 * f] : f \in 0 .. 5} = UnitNormals

\* a cell away from the origin has been written
C5_Witness ==
    /\ pc = "set"
    /\ Size(_cell_buffer) = 1
    /\ _cell_buffer[0][1] # 0 /\ _cell_buffer[0][2] # 0 /\ _cell_buffer[0][3] # 0
    /\ _parent.normal[23] = <<0, 0, 1>>

\* the triangles (0 .. 11) of the one compiled cell some / all of whose three
\* vertices carry the normal n
TrianglesSome(n) ==
    {tr \in 0 .. 11 : \E k \in 0 .. 2 : _parent.normal[_parent.index[3 * tr + k]] = n}

TrianglesAll(n) ==
    {tr \in 0 .. 11 : \A k \in 0 .. 2 : _parent.normal[_parent.index[3 * tr + k]] = n}

\* C14: the single cell at (0, 0, 0) with atlas id 0 compiles to 24
\* vertices and 36 indices, the first three indices are 0, 1, 2, and of the
\* 12 triangles exactly two have the normal (0, -1, 0): the two triangles of
\* the bottom face, each with that normal on all three vertices.
C14_SingleCell ==
    pc = "set" /\ _cell_buffer[0] = <<0, 0, 0, 0>> =>
        /\ Size(_parent.vertex) = 24
        /\ Size(_parent.index) = 36
        /\ <<_parent.index[0], _parent.index[1], _parent.index[2]>> = <<0, 1, 2>>
        /\ Cardinality(TrianglesAll(<<0, -1, 0>>)) = 2
        /\ TrianglesSome(<<0, -1, 0>>) = TrianglesAll(<<0, -1, 0>>)
        /\ \A tr \in TrianglesAll(<<0, -1, 0>>) : \A k \in 0 .. 2 :
               _parent.vertex[_parent.index[3 * tr + k]][2] = -1

\* the cell at the origin with atlas id 0 has been compiled
C14_Witness ==
    /\ pc = "set"
    /\ _cell_buffer = PushBack(EmptyVec, <<0, 0, 0, 0>>)
    /\ _parent.vertex[0] # Zero4

\* C16: the 24 vertices of a compiled cell have w = 1 and every coordinate
\* one half unit below or above the cell position; each of the 8 corners of
\* the cube is the position of exactly 3 vertices, which lie on 3 different
\* faces, each face passing through the corner; the index list references
\* every one of the 24 vertices.
C16_CubeCorners ==
    pc = "set" =>
        LET cell == _cell_buffer[0]
            pos(j) == <<_parent.vertex[j][1], _parent.vertex[j][2], _parent.vertex[j][3]>>
            Corners == {<<cell[1] + dx, cell[2] + dy, cell[3] + dz>> :
                            dx \in {-1, 1}, dy \in {-1, 1}, dz \in {-1, 1}}
            at(corner) == {j \in 0 .. 23 : pos(j) = corner}
            faces(j) == {f \in 0 .. 5 : j \in FaceVertices(0, f)}
            through(f, corner) ==
                LET n == _parent.normal[3 * f]
                IN  corner[Axis(n)] = cell[Axis(n)] + n[Axis(n)]
        IN  /\ \A j \in 0 .. 23 : _parent.vertex[j][4] = 1 /\ pos(j) \in Corners
            /\ \A corner \in Corners :
                   /\ Cardinality(at(corner)) = 3
                   /\ \A j \in at(corner) : Cardinality(faces(j)) = 1
                   /\ Cardinality(UNION {faces(j) : j \in at(corner)}) = 3
                   /\ \A j \in at(corner) : \A f \in faces(j) : through(f, corner)
            /\ {_parent.index[k] : k \in 0 .. 35} = 0 .. 23

\* a cell away from the origin has been compiled, its last vertex written
C16_Witness ==
    /\ pc = "set"
    /\ _cell_buffer[0][1] = 1 /\ _cell_buffer[0][2] = -1 /\ _cell_buffer[0][3] = 1
    /\ _parent.vertex[23] = <<2, -2, 2, 1>>

\* C22: for each of the 12 triangles of a compiled cell the cross product of
\* its edges (second vertex - first) x (third vertex - first), the vertices
\* taken in the order of the index list, is a positive multiple of the
\* normal stored on each of its three vertices; and the three vertices lie
\* in the plane one half unit from the cell position on the side the
\* normal points to.
C22_Winding ==
    pc = "set" =>
        \A tr \in 0 .. 11 :
            LET cell == _cell_buffer[0]
                i0 == _parent.index[3 * tr]
                i1 == _parent.index[3 * tr + 1]
                i2 == _parent.index[3 * tr + 2]
                e(i, a) == _parent.vertex[i][a] - _parent.vertex[i0][a]
                cross == <<e(i1, 2) * e(i2, 3) - e(i1, 3) * e(i2, 2),
                           e(i1, 3) * e(i2, 1) - e(i1, 1) * e(i2, 3),
                           e(i1, 1) * e(i2, 2) - e(i1, 2) * e(i2, 1)>>
                n == _parent.normal[i0]
            IN  /\ n \in UnitNormals
                /\ _parent.normal[i1] = n /\ _parent.normal[i2] = n
                /\ \A a \in 1 .. 3 :
                       IF n[a] = 0 THEN cross[a] = 0 ELSE cross[a] * n[a] > 0
                /\ \A i \in {i0, i1, i2} :
                       _parent.vertex[i][Axis(n)] = cell[Axis(n)] + n[Axis(n)]

\* a cell with negative and positive coordinates has been compiled; its
\* last triangle is the second one of the +z face
C22_Witness ==
    /\ pc = "set"
    /\ _cell_buffer[0][1] = -1 /\ _cell_buffer[0][2] = 1 /\ _cell_buffer[0][3] = -1
    /\ <<_parent.index[33], _parent.index[34], _parent.index[35]>> = <<15, 23, 16>>
    /\ _parent.normal[23] = <<0, 0, 1>>

\* C6: for every atlas id in 0 .. 15 and each of the 24 block vertices the uv
\* that set_cell stores from create_uvs is (x0 + 124 cu, y0 + 124 cv)
\* thousandths with cu, cv in {0, 1}, x0 = 1 + 125 (id mod 8) and
\* y0 = 876 - 125 (id div 8); no id of 0 .. 15 falls through the table.
C6_AtlasUV ==
    pc = "set" =>
        LET id == _cell_buffer[0][4]
            x0 == 1 + 125 * (id % 8)
            y0 == 876 - 125 * (id \div 8)
        IN  /\ id \in 0 .. 15
            /\ \A i \in 0 .. 23 :
                   /\ _parent.uv[i] = create_uvs(id)[i]
                   /\ \E cu, cv \in {0, 1} :
                          _parent.uv[i] = <<x0 + 124 * cu, y0 + 124 * cv>>

\* the last id of the second row of the atlas has been written
C6_Witness == pc = "set" /\ _cell_buffer[0][4] = 15 /\ _parent.uv[0] = <<1000, 751>>

----------------------------------------------------------------------------
(* add_mesh, bind and upload applied to meshes of arbitrary array lengths *)

MaxLen == 3

\* meshes whose vertex, uv and normal arrays have any lengths up to MaxLen
InputMeshes ==
    {[vertex |-> Resize(EmptyVec, v, Zero4), uv |-> Resize(EmptyVec, u, Zero2),
      normal |-> Resize(EmptyVec, n, Zero3), index |-> Resize(EmptyVec, v, 0)] :
        v \in 0 .. MaxLen, u \in 0 .. MaxLen, n \in 0 .. MaxLen}

InitCheck ==
    /\ SetTerrainInit(NewTerrain)
    /\ origin = [gb |-> EmptyVec, pb |-> EmptyVec]
    /\ again = FALSE
    /\ pc = "check"
    /\ work = <<>>
    /\ begun = EmptyMesh
    /\ touched = {}
    /\ fetched = {}
    /\ mesh_in \in InputMeshes
    /\ NoWorld
    /\ NoOthers

\* the end of upload_geometry with mesh_in in the place of the compiled mesh
AddMeshUpload ==
    /\ pc = "check"
    /\ SetTerrain(geometry_end([Terrain EXCEPT !.parent = mesh_in]))
    /\ pc' = "checked"
    /\ UNCHANGED <<hvars, work, begun, touched, fetched, mesh_in, wvars, ovars>>

SpecCheck == InitCheck /\ [][AddMeshUpload]_vars

Mismatch(m) == Size(m.uv) # Size(m.vertex) \/ Size(m.normal) # Size(m.vertex)

\* C10: check throws for a mesh whose uv length or normal length differs
\* from its vertex length and for no other mesh; when add_mesh is handed such
\* a mesh the handler ends with the exception, before bind and upload are
\* called, and nothing of the mesh is staged or on the GPU; a mesh of three
\* equal lengths is never rejected and is uploaded.
C10_CheckRejects ==
    pc = "checked" =>
        /\ check_throws(mesh_in) <=> Mismatch(mesh_in)
        /\ Called("gb.add_mesh") /\ Mismatch(mesh_in) =>
               /\ thrown
               /\ ~Called("gb.upload")
               /\ _gb.data = <<>> /\ _gb.gpu = <<>>
        /\ ~Mismatch(mesh_in) =>
               /\ ~thrown
               /\ Called("gb.upload")
               /\ Size(mesh_in.vertex) > 0 => _gb.gpu = <<mesh_in>>

\* a mesh with the right uv length and a wrong normal length was rejected
C10_Witness ==
    /\ pc = "checked"
    /\ thrown
    /\ Size(mesh_in.uv) = Size(mesh_in.vertex)
    /\ Size(mesh_in.normal) # Size(mesh_in.vertex)

----------------------------------------------------------------------------
(* terrain_vertex::copy (box mode): the mesh interleaved into the float     *)
(* buffer, one work item per vertex, the three memcpy of the items          *)
(* interleaved in any order                                                 *)

\* struct member offsets and struct size, in floats
uv_off == 4

normal_off == uv_off + 2

width_size == normal_off + 3

copy_block_packed(buf, m, off, i, blk) ==
    LET j == off + i * (width_size - 1)
    IN  IF blk = 1 THEN Store(buf, j, m.vertex[i])
        ELSE IF blk = 2 THEN Store(buf, j + uv_off, m.uv[i])
        ELSE Store(buf, j + normal_off, m.normal[i])
\* the memcpy number blk (1, 2, 3) of the work item i
copy_block(buf, m, off, i, blk) ==
    LET j == off + i * width_size
    IN  IF blk = 1 THEN Store(buf, j, m.vertex[i])
        ELSE IF blk = 2 THEN Store(buf, j + uv_off, m.uv[i])
        ELSE Store(buf, j + normal_off, m.normal[i])

\* a mesh of n vertices in which every float is a different number
NumberedMesh(n) ==
    [vertex |-> [i \in 0 .. n - 1 |-> <<10 * i + 1, 10 * i + 2, 10 * i + 3, 10 * i + 4>>],
     uv |-> [i \in 0 .. n - 1 |-> <<10 * i + 5, 10 * i + 6>>],
     normal |-> [i \in 0 .. n - 1 |-> <<10 * i + 7, 10 * i + 8, 10 * i + 9>>],
     index |-> EmptyVec]

\* copy is entered with a buffer that has room for the mesh at mesh_offset,
\* after one earlier mesh or none, and one float to spare
InitCopy ==
    /\ SetTerrainInit(NewTerrain)
    /\ NoWorld
    /\ NoEdit
    /\ NoGun
    /\ NoPlayer
    /\ \E n \in 0 .. MaxLen : \E off \in {0, 1, width_size} :
          /\ mesh_in = NumberedMesh(n)
          /\ mesh_offset = off
          /\ copy_data = [k \in 0 .. off + width_size * n |-> 0]
          /\ work = [i \in 0 .. n - 1 |-> 0]
    /\ origin = [gb |-> EmptyVec, pb |-> EmptyVec]
    /\ again = FALSE
    /\ pc = "copy"
    /\ begun = EmptyMesh
    /\ touched = {}
    /\ fetched = {}

\* a worker executes the next memcpy of the work item i
CopyBlock ==
    /\ pc = "copy"
    /\ \E i \in DOMAIN work :
          LET blk == work[i] + 1
              j == mesh_offset + i * width_size
              start == IF blk = 1 THEN j ELSE IF blk = 2 THEN j + uv_off ELSE j + normal_off
              len == IF blk = 1 THEN 4 ELSE IF blk = 2 THEN 2 ELSE 3
          IN  /\ work[i] < 3
              /\ copy_data' = copy_block(copy_data, mesh_in, mesh_offset, i, blk)
              /\ work' = [work EXCEPT ![i] = blk]
              /\ touched' = touched \cup {<<"data", k, i>> : k \in start .. start + len - 1}
    /\ UNCHANGED <<tvars, hvars, pc, begun, fetched, mesh_in, wvars, evars, mesh_offset,
                   gvars, pvars>>

\* worker.run returns when every item has done its three memcpy
CopyEnd ==
    /\ pc = "copy"
    /\ \A i \in DOMAIN work : work[i] = 3
    /\ pc' = "copied"
    /\ UNCHANGED <<tvars, hvars, work, begun, touched, fetched, mesh_in, wvars, ovars>>

NextCopy == CopyBlock \/ CopyEnd

SpecCopy == InitCopy /\ [][NextCopy]_vars

\* C25: every write of work item i goes to a slot of
\* [mesh_offset + 9 i, mesh_offset + 9 i + 9), which lies below
\* mesh_offset + 9 * vertex.len, so no slot is written by two items; and
\* when the run has returned, whatever the order of the writes, slots
\* mesh_offset + 9 i + 0 .. 3 hold the position of vertex i, 4 .. 5 its uv
\* and 6 .. 8 its normal, and every other float of the buffer is untouched.
C25_Interleaved ==
    LET n == Size(mesh_in.vertex)
    IN  /\ \A w \in touched :
               /\ w[2] >= mesh_offset + 9 * w[3]
               /\ w[2] < mesh_offset + 9 * w[3] + 9
               /\ w[2] < mesh_offset + 9 * n
               /\ w[2] \in DOMAIN copy_data
        /\ pc = "copied" =>
               /\ \A i \in 0 .. n - 1 :
                      <<copy_data[mesh_offset + 9 * i], copy_data[mesh_offset + 9 * i + 1],
                        copy_data[mesh_offset + 9 * i + 2], copy_data[mesh_offset + 9 * i + 3],
                        copy_data[mesh_offset + 9 * i + 4], copy_data[mesh_offset + 9 * i + 5],
                        copy_data[mesh_offset + 9 * i + 6], copy_data[mesh_offset + 9 * i + 7],
                        copy_data[mesh_offset + 9 * i + 8]>>
                          = mesh_in.vertex[i] \o mesh_in.uv[i] \o mesh_in.normal[i]
               /\ \A k \in DOMAIN copy_data :
                      k < mesh_offset \/ k >= mesh_offset + 9 * n => copy_data[k] = 0
               /\ Cardinality(touched) = 9 * n

\* the copy of the longest mesh behind an earlier mesh has returned; the
\* last float written is the z of the last normal
C25_Witness ==
    /\ pc = "copied"
    /\ Size(mesh_in.vertex) = MaxLen
    /\ mesh_offset = width_size
    /\ copy_data[mesh_offset + 9 * MaxLen - 1] = 10 * (MaxLen - 1) + 9

----------------------------------------------------------------------------
(* game::gun_state: the energy store and the shot cooldown                  *)

\* uint32_t arithmetic on <<high, low>>
add32(a, b) ==
    LET lo == a[2] + b[2]
    IN  <<(a[1] + b[1] + lo \div 65536) % 65536, lo % 65536>>

sub32(a, b) ==
    LET lo == a[2] - b[2]
    IN  <<(a[1] - b[1] - (IF lo < 0 THEN 1 ELSE 0)) % 65536, lo % 65536>>

geq32(a, b) == a[1] > b[1] \/ (a[1] = b[1] /\ a[2] >= b[2])

\* base << atlas_id, for the shifts that stay below 2^31
shl(base, atlas_id) == U32(base * 2 ^ atlas_id)

\* each handler gives the gun it leaves and the value it returns
absorb(g, atlas_id) ==
    LET value == shl(1, atlas_id)
    IN  [g |-> [g EXCEPT !._energy = add32(g._energy, value)], ret |-> FALSE]

can_consume(g, atlas_id) ==
    LET value == shl(2, atlas_id)
    IN  [g |-> g, ret |-> geq32(g._energy, value)]

\* gun_state::consume with the result of a successful will_consume
will_consume_unguarded(g, atlas_id) ==
    LET value == shl(2, atlas_id)
    IN  [g |-> [g EXCEPT !._energy = sub32(g._energy, value)], ret |-> TRUE]
will_consume(g, atlas_id) ==
    LET value == shl(2, atlas_id)
    IN  IF geq32(g._energy, value)
        THEN [g |-> [g EXCEPT !._energy = sub32(g._energy, value)], ret |-> TRUE]
        ELSE [g |-> g, ret |-> FALSE]

get_charge_time(g, t) == t - g._charge

get_cool_time(g, t) == t - g._cool

is_beam_charged(g, t) ==
    [g |-> g, ret |-> g._beam_mode /\ ~g._shoot_cooldown /\ get_charge_time(g, t) > 1000]

check_cooldown_at_2000(g, t) ==
    LET cleared == IF g._shoot_cooldown /\ get_cool_time(g, t) >= 2000
                   THEN [g EXCEPT !._shoot_cooldown = ~g._shoot_cooldown]
                   ELSE g
    IN  [g |-> cleared, ret |-> ~cleared._shoot_cooldown]
check_cooldown(g, t) ==
    LET cleared == IF g._shoot_cooldown /\ get_cool_time(g, t) > 2000
                   THEN [g EXCEPT !._shoot_cooldown = ~g._shoot_cooldown]
                   ELSE g
    IN  [g |-> cleared, ret |-> ~cleared._shoot_cooldown]

start_charge(g, t) == [g |-> [g EXCEPT !._charge = t], ret |-> FALSE]

start_cooldown(g, t) ==
    [g |-> [g EXCEPT !._shoot_cooldown = TRUE, !._cool = t], ret |-> FALSE]

toggle_beam_mode(g) == [g |-> [g EXCEPT !._beam_mode = ~g._beam_mode], ret |-> FALSE]

\* the atlas ids of the blocks the gun absorbs and places
GunIds == 0 .. 15

\* calls made to one gun in a run
MaxCalls == 3

\* the clock advances in steps of TickMs up to MaxTime
TickMs == 500

MaxTime == 6000

\* energies a gun can have collected before the calls that are followed
StartEnergies == {U32(0), U32(1), U32(65535), U32(65536), <<65535, 65535 - 32768>>, <<65535, 65535>>}

\* everything but the gun and the player is as constructed and stays so
Shelved ==
    /\ SetTerrainInit(NewTerrain)
    /\ origin = [gb |-> EmptyVec, pb |-> EmptyVec]
    /\ again = FALSE
    /\ pc = "idle"
    /\ work = <<>>
    /\ begun = EmptyMesh
    /\ touched = {}
    /\ fetched = {}
    /\ mesh_in = EmptyMesh
    /\ NoWorld
    /\ NoEdit
    /\ NoCopy

InitEnergy ==
    /\ Shelved
    /\ NoPlayer
    /\ \E e \in StartEnergies : gun = [NewGun EXCEPT !._energy = e]
    /\ now = 0
    /\ ghist = NoCall

\* the call named name with argument id has left r
GunCalled(name, id, r) ==
    /\ ghist.calls < MaxCalls
    /\ gun' = r.g
    /\ ghist' = [call |-> name, id |-> id, ret |-> r.ret, calls |-> ghist.calls + 1]
    /\ UNCHANGED <<tvars, hvars, rvars, mesh_in, wvars, evars, cvars, now, pvars>>

Absorb == \E id \in GunIds : GunCalled("absorb", id, absorb(gun, id))

CanConsume == \E id \in GunIds : GunCalled("can_consume", id, can_consume(gun, id))

WillConsume == \E id \in GunIds : GunCalled("will_consume", id, will_consume(gun, id))

NextEnergy == Absorb \/ CanConsume \/ WillConsume

SpecEnergy == InitEnergy /\ [][NextEnergy]_vars

\* the uint32_t a minus b when that is not negative, <<-1, 0>> otherwise
Minus(a, b) ==
    IF a[2] >= b[2]
    THEN IF a[1] >= b[1] THEN <<a[1] - b[1], a[2] - b[2]>> ELSE <<-1, 0>>
    ELSE IF a[1] - 1 >= b[1] THEN <<a[1] - b[1] - 1, a[2] - b[2] + 65536>> ELSE <<-1, 0>>

\* 2^e for e in 1 .. 16
Pow2(e) == IF e = 16 THEN <<1, 0>> ELSE <<0, 2 ^ e>>

\* C29: for an atlas id in 0 .. 15, will_consume(id) returns true and leaves
\* the energy minus 2^(id+1), a number that is not negative, when the energy
\* is at least 2^(id+1), and returns false and leaves the energy alone
\* otherwise; can_consume(id) returns the same boolean and never changes the
\* energy; so no will_consume takes the energy through zero.
C29_NoUnderflow ==
    [][/\ ghist'.call = "will_consume" =>
            LET left == Minus(gun._energy, Pow2(ghist'.id + 1))
            IN  IF left[1] >= 0
                THEN ghist'.ret /\ gun'._energy = left
                ELSE ~ghist'.ret /\ gun'._energy = gun._energy
       /\ ghist'.call = "can_consume" =>
            /\ ghist'.ret = (Minus(gun._energy, Pow2(ghist'.id + 1))[1] >= 0)
            /\ gun'._energy = gun._energy
       /\ ghist'.call = "absorb" =>
            LET added == Minus(gun'._energy, gun._energy)
            IN  added = U32(2 ^ ghist'.id) \/ added[1] < 0]_vars

\* will_consume(15) has just taken 65536 from an energy of exactly 65536
C29_Witness ==
    /\ ghist.call = "will_consume"
    /\ ghist.id = 15
    /\ ghist.ret
    /\ gun._energy = U32(0)

(* the cooldown: calls at any reading of the clock *)

InitCooldown ==
    /\ Shelved
    /\ NoPlayer
    /\ NoGun

Tick ==
    /\ now + TickMs <= MaxTime
    /\ now' = now + TickMs
    /\ UNCHANGED <<tvars, hvars, rvars, mesh_in, wvars, evars, cvars, gun, ghist, pvars>>

GunTimed(name, r) ==
    /\ gun' = r.g
    /\ ghist' = [call |-> name, id |-> 0, ret |-> r.ret, calls |-> 0]
    /\ UNCHANGED <<tvars, hvars, rvars, mesh_in, wvars, evars, cvars, now, pvars>>

StartCooldown == GunTimed("start_cooldown", start_cooldown(gun, now))

CheckCooldown == GunTimed("check_cooldown", check_cooldown(gun, now))

StartCharge == GunTimed("start_charge", start_charge(gun, now))

ToggleBeamMode == GunTimed("toggle_beam_mode", toggle_beam_mode(gun))

IsBeamCharged == GunTimed("is_beam_charged", is_beam_charged(gun, now))

NextCooldown ==
    Tick \/ StartCooldown \/ CheckCooldown \/ StartCharge \/ ToggleBeamMode \/ IsBeamCharged

SpecCooldown == InitCooldown /\ [][NextCooldown]_vars

\* C30: start_cooldown sets the flag and notes the time; while the flag is
\* set, check_cooldown returns false as long as no more than 2000 ms have
\* passed since the latest start_cooldown, and the first call after that
\* clears the flag and returns true; with the flag clear it returns true,
\* and only start_cooldown sets the flag again; is_beam_charged is never
\* true with the flag set or with beam mode off.
C30_Cooldown ==
    /\ [][now' = now =>
            /\ ghist'.call = "check_cooldown" =>
                  /\ ghist'.ret = ~(gun._shoot_cooldown /\ now - gun._cool <= 2000)
                  /\ gun'._shoot_cooldown = ~ghist'.ret
                  /\ gun'._cool = gun._cool
            /\ ghist'.call = "start_cooldown" =>
                  gun'._shoot_cooldown /\ gun'._cool = now
            /\ ghist'.call \notin {"check_cooldown", "start_cooldown"} =>
                  /\ gun'._shoot_cooldown = gun._shoot_cooldown
                  /\ gun'._cool = gun._cool]_vars
    /\ [][now' # now => gun' = gun]_vars
    /\ [](ghist.call = "is_beam_charged" /\ ghist.ret =>
             gun._beam_mode /\ ~gun._shoot_cooldown)

\* check_cooldown has just cleared a cooldown started at 500 ms, on the
\* first reading of the clock that is more than 2000 ms later
C30_Witness ==
    /\ ghist.call = "check_cooldown"
    /\ ghist.ret
    /\ gun._cool = 500
    /\ now = 3000
    /\ ~gun._shoot_cooldown

----------------------------------------------------------------------------
(* game::player: jumps, landings and health. Velocities are whole world     *)
(* units per second; a force is noted by the name of what applied it.       *)

\* the square of vec3::magnitude
magnitude2(v) == v[1] * v[1] + v[2] * v[2] + v[3] * v[3]

abs(x) == IF x < 0 THEN -x ELSE x

add_health_revives(p, health) ==
    IF p._health < _health_cap
    THEN LET sum == p._health + health
             capped == IF sum > _health_cap THEN _health_cap ELSE sum
         IN  [p EXCEPT !._health = capped, !._dead = capped <= 0]
    ELSE p
add_health(p, health) ==
    IF p._health < _health_cap
    THEN LET sum == p._health + health
         IN  [p EXCEPT !._health = IF sum > _health_cap THEN _health_cap ELSE sum]
    ELSE p

consume_health(p, health) ==
    LET q == [p EXCEPT !._health = p._health - health]
    IN  IF q._health <= 0 THEN [q EXCEPT !._dead = TRUE] ELSE q

\* respawn; the explode settings and the skills are not among the fields kept
respawn(p) ==
    [p EXCEPT !._hooked = FALSE, !._jet = FALSE, !._dead = FALSE, !._health = _health_cap]

has_landed(p) == [p |-> [p EXCEPT !._landed = FALSE], ret |-> p._landed]

jump_unlimited(p) ==
    IF ~p._hooked
    THEN IF p._jump_count = 0 /\ ~p._airborn
         THEN [p |-> [p EXCEPT !._jump_count = p._jump_count + 1], forces |-> <<"jump">>]
         ELSE [p |-> [p EXCEPT !._jump_count = p._jump_count + 1], forces |-> <<"jump">>]
    ELSE [p |-> p, forces |-> <<>>]
\* jump gives the player it leaves and the forces it applied
jump(p) ==
    IF ~p._hooked
    THEN IF p._jump_count = 0 /\ ~p._airborn
         THEN [p |-> [p EXCEPT !._jump_count = p._jump_count + 1], forces |-> <<"jump">>]
         ELSE IF p._jump_count = 1
         THEN [p |-> [p EXCEPT !._jump_count = p._jump_count + 1], forces |-> <<"jump">>]
         ELSE [p |-> p, forces |-> <<>>]
    ELSE [p |-> p, forces |-> <<>>]

update_land_every_contact(p, landed, v) ==
    LET q == [p EXCEPT !._airborn = abs(v[2]) >= 1, !._falling = v[2] <= -1]
    IN  IF landed /\ ~q._falling
        THEN LET r == [q EXCEPT !._land_count = q._land_count + 1]
                 s == [r EXCEPT !._jump_count = 0, !._landed = TRUE]
                 speed2 == magnitude2(s._land_vel)
             IN  IF r._land_count >= 1
                 THEN IF speed2 > 20 * 20 THEN consume_health(s, 100)
                      ELSE IF speed2 > 10 * 10 THEN consume_health(s, 50)
                      ELSE s
                 ELSE r
        ELSE IF ~q._landed /\ q._falling
        THEN [q EXCEPT !._landed = FALSE, !._land_count = 0, !._land_vel = v]
        ELSE q
\* update_land with the velocity v of the body; speed > 20 is speed^2 > 400
update_land(p, landed, v) ==
    LET q == [p EXCEPT !._airborn = abs(v[2]) >= 1, !._falling = v[2] <= -1]
    IN  IF landed /\ ~q._falling
        THEN LET r == [q EXCEPT !._land_count = q._land_count + 1]
                 s == [r EXCEPT !._jump_count = 0, !._landed = TRUE]
                 speed2 == magnitude2(s._land_vel)
             IN  IF r._land_count = 1
                 THEN IF speed2 > 20 * 20 THEN consume_health(s, 100)
                      ELSE IF speed2 > 10 * 10 THEN consume_health(s, 50)
                      ELSE s
                 ELSE r
        ELSE IF ~q._landed /\ q._falling
        THEN [q EXCEPT !._landed = FALSE, !._land_count = 0, !._land_vel = v]
        ELSE q

\* update_position; consumed is what _skills.will_consume(_jet_cost) returns
update_position(p, consumed) ==
    IF p._hooked THEN [p |-> p, forces |-> <<"swing">>]
    ELSE IF p._jet
    THEN IF consumed THEN [p |-> p, forces |-> <<"jet">>]
         ELSE [p |-> [p EXCEPT !._jet = FALSE], forces |-> <<>>]
    ELSE [p |-> p, forces |-> <<"friction">>]

\* update_frame; landed is what the loop over the collision cells found
update_frame(p, landed, v, consumed) == update_position(update_land(p, landed, v), consumed)

set_hook(p) == [p EXCEPT !._hooked = TRUE]

hook_abort(p) == [p EXCEPT !._hooked = FALSE]

set_jet(p, flag) == [p EXCEPT !._jet = flag]

\* the velocities a frame finds: at rest, rising, falling at the threshold,
\* falls of speed 10, 11, 20 (not straight down) and 21
Velocities ==
    {<<0, 0, 0>>, <<0, 2, 0>>, <<0, -1, 0>>, <<6, -8, 0>>, <<0, -11, 0>>,
     <<12, -16, 0>>, <<0, -21, 0>>}

\* the health is followed down to -MaxDebt, the contacts in a row up to MaxLand
MaxDebt == 100

MaxLand == 2

Amounts == {0, 5, 50, 100}

InitPlayer ==
    /\ Shelved
    /\ NoGun
    /\ NoPlayer

\* the call named name has left q, having applied forces; a frame with a
\* falling velocity while _landed is clear arms the next landing and is the
\* frame whose velocity counts, a contact without fall uses the arming up
PlayerCalled(name, landed, v, q, forces) ==
    LET arming == name = "update_frame" /\ v[2] <= -1 /\ ~player._landed
        contact == name = "update_frame" /\ landed /\ v[2] > -1
        jumped == IF name = "jump" /\ forces # <<>> THEN 1 ELSE 0
    IN  /\ q._health >= -MaxDebt
        /\ q._land_count <= MaxLand
        /\ player' = q
        /\ phist' = [call |-> name, landed |-> landed, v |-> v, forces |-> forces,
                     jumps |-> IF contact /\ phist.armed THEN 0 ELSE phist.jumps + jumped,
                     armed |-> IF arming THEN TRUE ELSE IF contact THEN FALSE ELSE phist.armed,
                     fallvel |-> IF arming THEN v ELSE phist.fallvel]
        /\ UNCHANGED <<tvars, hvars, rvars, mesh_in, wvars, evars, cvars, gvars>>

UpdateFrame ==
    \E landed \in BOOLEAN : \E v \in Velocities : \E consumed \in BOOLEAN :
        LET r == update_frame(player, landed, v, consumed)
        IN  PlayerCalled("update_frame", landed, v, r.p, r.forces)

Jump == PlayerCalled("jump", FALSE, Zero3, jump(player).p, jump(player).forces)

HasLanded == PlayerCalled("has_landed", FALSE, Zero3, has_landed(player).p, <<>>)

SetHook == PlayerCalled("set_hook", FALSE, Zero3, set_hook(player), <<>>)

HookAbort == PlayerCalled("hook_abort", FALSE, Zero3, hook_abort(player), <<>>)

SetJet == \E flag \in BOOLEAN : PlayerCalled("set_jet", FALSE, Zero3, set_jet(player, flag), <<>>)

Respawn == PlayerCalled("respawn", FALSE, Zero3, respawn(player), <<>>)

AddHealth ==
    \E h \in Amounts : PlayerCalled("add_health", FALSE, Zero3, add_health(player, h), <<>>)

ConsumeHealth ==
    \E h \in Amounts : PlayerCalled("consume_health", FALSE, Zero3, consume_health(player, h), <<>>)

\* drone_collide consumes 5 of the player's health
DroneCollide == PlayerCalled("drone_collide", FALSE, Zero3, consume_health(player, 5), <<>>)

NextLand == UpdateFrame \/ Jump \/ HasLanded \/ SetHook \/ HookAbort \/ SetJet \/ Respawn

SpecLand == InitPlayer /\ [][NextLand]_vars

NextHealth == AddHealth \/ ConsumeHealth \/ DroneCollide \/ Respawn

SpecHealth == InitPlayer /\ [][NextHealth]_vars

\* C26: _jump_count is 0, 1 or 2 in every state; jump applies its force at
\* most twice between two detected landings, the first time only when the
\* player is not airborne; and while the player is hooked jump changes
\* nothing and applies no force.
C26_TwoJumps ==
    /\ [](player._jump_count \in {0, 1, 2} /\ phist.jumps <= 2)
    /\ [][phist'.call = "jump" =>
            /\ player._hooked => player' = player /\ phist'.forces = <<>>
            /\ phist'.forces # <<>> =>
                  /\ phist'.forces = <<"jump">>
                  /\ phist.jumps = 0 => ~player._airborn
            /\ phist'.forces = <<>> => player' = player]_vars

\* the second jump since the last landing has just been made, in the air
C26_Witness ==
    /\ phist.call = "jump"
    /\ phist.forces = <<"jump">>
    /\ phist.jumps = 2
    /\ player._jump_count = 2
    /\ player._airborn
    /\ ~phist.armed

\* C27: a frame detects a landing (sets _landed, zeroes _jump_count, takes
\* 100 or 50 of the health for a cached speed above 20 or above 10) exactly
\* when it finds a contact below the player without falling velocity and,
\* since the last such detection, some frame had a falling velocity
\* (v.y <= -1) while _landed was clear; the cached speed is that of the last
\* such falling frame. Every other frame leaves _landed, _jump_count, the
\* health and the dead flag alone.
C27_OncePerFall ==
    [][phist'.call = "update_frame" =>
          LET contact == phist'.landed /\ phist'.v[2] > -1
              speed2 == magnitude2(phist.fallvel)
              damage == IF speed2 > 400 THEN 100 ELSE IF speed2 > 100 THEN 50 ELSE 0
          IN  IF contact /\ phist.armed
              THEN /\ player'._landed
                   /\ player'._jump_count = 0
                   /\ player'._health = player._health - damage
              ELSE /\ player'._landed = player._landed
                   /\ player'._jump_count = player._jump_count
                   /\ player'._health = player._health
                   /\ player'._dead = player._dead]_vars

\* a second contact in a row after a landing that cost 50: the frame has
\* detected nothing, the two jumps made since are still counted
C27_Witness ==
    /\ phist.call = "update_frame"
    /\ phist.landed
    /\ phist.v = Zero3
    /\ ~phist.armed
    /\ player._land_count = 2
    /\ player._health = 50
    /\ player._jump_count = 2
    /\ magnitude2(player._land_vel) = 400

\* C28: with amounts that are not negative, _health never exceeds 100 and a
\* player with no health left is dead; a dead player stays dead through
\* every call but respawn, also when add_health lifts the health above
\* zero; respawn leaves _health = 100 and _dead = false.
C28_Health ==
    /\ [](player._health <= 100 /\ (player._health <= 0 => player._dead))
    /\ [][/\ player._dead /\ phist'.call # "respawn" => player'._dead
          /\ phist'.call = "respawn" => player'._health = 100 /\ ~player'._dead]_vars

\* add_health has lifted a dead player's health above zero
C28_Witness ==
    /\ phist.call = "add_health"
    /\ player._dead
    /\ player._health > 0

----------------------------------------------------------------------------
(* The two uploads as wholes, the mesh that reaches add_mesh being any mesh *)
(* of matching or mismatching array lengths                                 *)

\* meshes whose three lengths are each 0, 1 or MaxLen
FaultMeshes ==
    {m \in InputMeshes :
        \A a \in {"vertex", "uv", "normal"} : Size(m[a]) \in {0, 1, MaxLen}}

\* upload_geometry in which the compile leaves the mesh m
geometry_of(t, m) == geometry_end([geometry_begin(t, <<>>) EXCEPT !.parent = m])

\* upload_preview in which the compile leaves the mesh m
preview_of(t, m) ==
    preview_end([preview_begin(t, cell_mesh(EmptyVec)) EXCEPT !.parent = m])

UploadGeometryOf ==
    /\ pc = "idle"
    /\ \E m \in FaultMeshes :
          /\ mesh_in' = m
          /\ SetTerrain(geometry_of([Terrain EXCEPT !.calls = <<>>], m))
    /\ UNCHANGED <<hvars, rvars, wvars, ovars>>

UploadPreviewOf ==
    /\ pc = "idle"
    /\ \E m \in FaultMeshes :
          /\ mesh_in' = m
          /\ SetTerrain(preview_of([Terrain EXCEPT !.calls = <<>>], m))
    /\ UNCHANGED <<hvars, rvars, wvars, ovars>>

NextAbort == UploadGeometryOf \/ UploadPreviewOf

SpecAbort == Init /\ [][NextAbort]_vars

----------------------------------------------------------------------------
(* upload_preview called by a second caller while the run of upload_geometry *)
(* is open.  _cell_buffer and _parent are members of the one terrain, so     *)
(* both calls work on the same two objects.  The work items are interleaved  *)
(* as wholes; the preview call is taken in one step (the schedules in which  *)
(* no worker of the view runs during it).  A work item whose cell is lying      *)
(* beyond the end of the cell buffer reads whatever the memory holds: any    *)
(* cell; a write beyond the end of an array changes no element of it.        *)

\* upload_geometry up to worker.run; origin.gb keeps the cells it listed
OverlapBegin ==
    /\ pc = "idle"
    /\ \E children \in ChunkLists :
          LET t == geometry_begin([Terrain EXCEPT !.calls = <<>>], children)
          IN  /\ SetTerrain(t)
              /\ work' = [i \in 0 .. Size(t.cell_buffer) - 1 |-> 0]
              /\ origin' = [origin EXCEPT !.gb = t.cell_buffer]
    /\ pc' = "run"
    /\ UNCHANGED <<again, begun, touched, fetched, mesh_in, wvars, ovars>>

\* the whole of upload_preview, entered while the run is open; one preview
\* call per view call
PreviewInRun ==
    /\ pc = "run"
    /\ op = "upload_geometry"
    /\ \E cells \in CellSeqs :
          LET t == upload_preview(Terrain, cell_mesh(cells))
          IN  /\ SetTerrain(t)
              /\ origin' = [origin EXCEPT !.pb = cells]
    /\ UNCHANGED <<again, rvars, mesh_in, wvars, ovars>>

\* the work item set_cell(i) of the run, on the members as they are now
OverlapSetCell ==
    /\ pc = "run"
    /\ \E i \in DOMAIN work :
          /\ work[i] = 0
          /\ \E stale \in CellSet :
                LET buf == [k \in 0 .. i |->
                               IF k \in DOMAIN _cell_buffer THEN _cell_buffer[k] ELSE stale]
                IN  _parent' = set_cell(_parent, buf, i)
          /\ work' = [work EXCEPT ![i] = 4]
    /\ UNCHANGED <<_cell_buffer, _gb, _pb, calls, thrown, op, hvars, pc>>
    /\ UNCHANGED <<begun, touched, fetched, mesh_in, wvars, ovars>>

\* worker.run has returned; add_mesh, bind, upload of _parent as it is now
OverlapEnd ==
    /\ pc = "run"
    /\ \A i \in DOMAIN work : work[i] = 4
    /\ Idle(geometry_end(Terrain))
    /\ UNCHANGED hvars

NextOverlap == OverlapBegin \/ PreviewInRun \/ OverlapSetCell \/ OverlapEnd \/ UploadPreview

SpecOverlap == Init /\ [][NextOverlap]_vars

\* what a call that compiles these cells alone uploads
uploads_alone(cells) ==
    IF Size(cells) = 0 THEN <<>>
    ELSE <<run_in_order(allocate_mesh_buffer(EmptyMesh, cells), cells, ascending(Size(cells)))>>

\* C19: when no call is in flight, the view buffer holds what the last
\* upload_geometry would have uploaded had it run alone, and the preview
\* buffer what the last upload_preview would have uploaded alone, also when
\* the preview call ran while the run of the view call was open.
C19_AsIfSerial ==
    pc = "idle" =>
        /\ _gb.gpu = uploads_alone(origin.gb)
        /\ _pb.gpu = uploads_alone(origin.pb)

\* a view upload has ended whose buffer holds the geometry of the cells of
\* the preview upload that ran during its run
C19_Witness ==
    /\ pc = "idle" /\ op = "upload_preview"
    /\ Size(origin.gb) = 1 /\ Size(origin.pb) = 1
    /\ origin.gb # origin.pb
    /\ _gb.gpu = uploads_alone(origin.pb)
    /\ _pb.gpu = uploads_alone(origin.pb)

----------------------------------------------------------------------------
(* Point mode (USE_GS_RENDER): the two uploads hand the cell meshes to the  *)
(* buffers as they are, with generated indices; check does nothing          *)

generate_indices_from_one(mesh) ==
    [mesh EXCEPT !.index = [k \in 0 .. Size(mesh.vertex) - 1 |-> k + 1]]
\* index.resize(vertex.size()); std::iota(index.begin(), index.end(), 0)
generate_indices(mesh) ==
    [mesh EXCEPT !.index = [k \in DOMAIN Resize(mesh.index, Size(mesh.vertex), 0) |-> k]]

\* the loop of upload_geometry over the chunk meshes
RECURSIVE add_chunks(_, _)
add_chunks(b, children) ==
    IF children = <<>> THEN b
    ELSE add_chunks(IF Size(Head(children).vertex) > 0
                    THEN [b EXCEPT !.data = Append(@, generate_indices(Head(children)))]
                    ELSE b,
                    Tail(children))

upload_geometry_gs(t, children) ==
    LET b == add_chunks(vb_clear(t.gb), children)
    IN  [t EXCEPT !.gb = vb_upload(b),
                  !.calls = <<"gb.clear">> \o [j \in 1 .. Len(b.data) |-> "gb.add_mesh"]
                                         \o <<"gb.bind", "gb.upload">>,
                  !.op = "upload_geometry",
                  !.thrown = FALSE]

upload_preview_gs(t, terrain) ==
    [t EXCEPT !.pb = vb_upload([vb_clear(t.pb) EXCEPT !.data = <<generate_indices(terrain)>>]),
              !.calls = <<"pb.clear", "pb.add_mesh", "pb.bind", "pb.upload">>,
              !.op = "upload_preview",
              !.thrown = FALSE]

\* index arrays a mesh can arrive with: empty, too short, too long
StaleIndex == {EmptyVec, [k \in 0 .. 0 |-> 5], [k \in 0 .. MaxCells |-> MaxCells - k]}

UploadGeometryGS ==
    /\ \E children \in ChunkLists : \E stale \in StaleIndex :
          /\ SetTerrain(upload_geometry_gs(Terrain,
                 [j \in 1 .. Len(children) |-> [children[j] EXCEPT !.index = stale]]))
          /\ origin' = [origin EXCEPT !.gb = populate_all(EmptyVec, children)]
    /\ UNCHANGED <<again, rvars, mesh_in, wvars, ovars>>

UploadPreviewGS ==
    /\ \E cells \in CellSeqs : \E stale \in StaleIndex :
          /\ SetTerrain(upload_preview_gs(Terrain, [cell_mesh(cells) EXCEPT !.index = stale]))
          /\ origin' = [origin EXCEPT !.pb = cells]
    /\ UNCHANGED <<again, rvars, mesh_in, wvars, ovars>>

NextPoint == UploadGeometryGS \/ UploadPreviewGS

SpecPoint == Init /\ [][NextPoint]_vars

\* the vertex arrays of the staged meshes, one after the other
RECURSIVE staged_cells(_)
staged_cells(data) ==
    IF data = <<>> THEN EmptyVec
    ELSE populate_cell_buffer(staged_cells(SubSeq(data, 1, Len(data) - 1)), data[Len(data)])

\* C13: in point mode every mesh staged in or uploaded from a buffer has
\* index.len = vertex.len and index[i] = i; the meshes of the view buffer
\* are the non-empty chunk meshes of the last upload_geometry, one vertex
\* per cell in list order, and the mesh of the preview buffer has the cells
\* of the last upload_preview as its vertices.
C13_PointMode ==
    /\ \A b \in {_gb, _pb} : \A j \in 1 .. Len(b.data) :
           /\ Size(b.data[j].index) = Size(b.data[j].vertex)
           /\ \A i \in DOMAIN b.data[j].index : b.data[j].index[i] = i
    /\ _gb.gpu = _gb.data /\ _pb.gpu = _pb.data
    /\ \A j \in 1 .. Len(_gb.data) : Size(_gb.data[j].vertex) > 0
    /\ staged_cells(_gb.data) = origin.gb
    /\ staged_cells(_pb.data) = origin.pb

\* the view buffer holds two chunk meshes and the preview buffer a mesh of
\* several cells
C13_Witness ==
    /\ Len(_gb.data) = 2
    /\ Len(_pb.data) = 1
    /\ Size(_pb.data[1].index) = MaxCells
    /\ _pb.data[1].index[MaxCells - 1] = MaxCells - 1

----------------------------------------------------------------------------
(* game::cgrid as world.h uses it, on a grid of one row of cells along x;  *)
(* every chunk holds one cell, so a chunk key is also a cell               *)

NumChunks == 3

GridCells == 0 .. NumChunks - 1

\* positions are counted in half cells; one step beyond either end of the
\* grid lies outside it
Positions == -1 .. 2 * NumChunks

inside(p) == p \in 0 .. 2 * NumChunks - 1

\* cgrid::snap, as the cell that holds the position
snap(p) == p \div 2

\* chunk_key(p, is_valid): the key of the chunk that holds p; outside the
\* grid is_valid is cleared and the key returned is any key
chunk_key(p) ==
    IF inside(p) THEN {[key |-> snap(p), is_valid |-> TRUE]}
    ELSE {[key |-> k, is_valid |-> FALSE] : k \in GridCells}

update_chunk(grid, key) == [grid EXCEPT !.recent = key]

is_chunk(k) == k \in GridCells

\* get_view_chunks: the chunks within one chunk of the recent chunk
get_view_chunks(grid) ==
    SelectSeq(<<grid.recent - 1, grid.recent, grid.recent + 1>>, is_chunk)

grid_value(grid, c) == grid.cells[c]

\* get_chunk: the mesh of the chunk, one vec4 <<center, atlas>> per block
get_chunk(grid, key) ==
    IF grid_value(grid, key) = -1 THEN cell_mesh(EmptyVec)
    ELSE cell_mesh(PushBack(EmptyVec, <<2 * key + 1, 1, 1, grid_value(grid, key)>>))

\* set_geometry(point, scale, offset, value): writes value to the scale cells
\* from point on in the direction of offset that lie in the grid; count is
\* the number of cells whose value this changed
set_geometry(grid, point, scale, offset, value) ==
    LET region == {point + offset * k : k \in 0 .. scale - 1} \cap GridCells
    IN  [grid |-> [grid EXCEPT !.cells =
                      [c \in GridCells |-> IF c \in region THEN value ELSE grid.cells[c]]],
         count |-> Cardinality({c \in region : grid.cells[c] # value})]

\* ray_trace_atlas: the cells from..to along the ray become blocks of the atlas
ray_trace_atlas(grid, from, to) ==
    [grid EXCEPT !.cells =
        [c \in GridCells |-> IF c \in from .. to THEN grid.atlas ELSE grid.cells[c]]]

\* atlas_preview(mesh, offset, scale): writes to the mesh the cells of the
\* atlas in the box of scale.x * scale.y * scale.z cells that starts at the
\* origin cell and extends along offset on every axis.  Of that box the
\* model keeps the cells on the three edges that meet in the origin cell:
\* the row along x, then the rest of the column along y, then along z.
atlas_preview(grid, offset, scale) ==
    cell_mesh([n \in 0 .. scale[1] + scale[2] + scale[3] - 3 |->
                  IF n < scale[1]
                  THEN <<offset[1] * (2 * n + 1), offset[2], offset[3], grid.atlas>>
                  ELSE IF n < scale[1] + scale[2] - 1
                  THEN <<offset[1], offset[2] * (2 * (n - scale[1] + 1) + 1), offset[3],
                         grid.atlas>>
                  ELSE <<offset[1], offset[2],
                         offset[3] * (2 * (n - scale[1] - scale[2] + 2) + 1), grid.atlas>>])

\* the grids a world can be built on
Grids ==
    {[cells |-> cells, recent |-> 0, atlas |-> 0] : cells \in [GridCells -> {-1, 0}]}

----------------------------------------------------------------------------
(* game::world: the operations that recompile the view or edit the grid *)

World == [t |-> Terrain, grid |-> _grid, view_chunks |-> _view_chunks,
          scale |-> _scale, position |-> position]

generate_terrain(w) ==
    LET chunks == get_view_chunks(w.grid)
        children == [j \in 1 .. Len(chunks) |-> get_chunk(w.grid, chunks[j])]
        size == Size(populate_all(EmptyVec, children))
    IN  [w EXCEPT !.view_chunks = chunks,
                  !.t = upload_geometry(w.t, children, ascending(size))]

generate_preview(w) ==
    [w EXCEPT !.t = upload_preview(w.t, atlas_preview(w.grid, <<1, 1, 1>>, <<w.scale, 1, 1>>))]

remove_block_keeps_mesh(w, point) ==
    [w EXCEPT !.grid = set_geometry(w.grid, point, w.scale, 1, -1).grid]
\* remove_block(point, direction); _preview_offset is the +x of construction
remove_block(w, point) ==
    LET set == set_geometry(w.grid, point, w.scale, 1, -1)
        w1 == [w EXCEPT !.grid = set.grid]
    IN  IF set.count > 0 THEN generate_terrain(w1) ELSE w1

character_load(w, p, loaded) ==
    LET w1 == generate_terrain([w EXCEPT !.position = p,
                                         !.grid = update_chunk(w.grid, snap(p))])
    IN  IF ~loaded
        THEN [remove_block([w1 EXCEPT !.scale = 3], snap(p)) EXCEPT !.scale = 1]
        ELSE w1

\* the world constructor on a grid, with state = <<p, loaded>>
NewWorld(grid, p, loaded) ==
    character_load(
        generate_preview([t |-> NewTerrain, grid |-> grid, view_chunks |-> <<>>,
                          scale |-> 1, position |-> p]),
        p, loaded)

add_block(w, traced) ==
    generate_terrain(
        [w EXCEPT !.grid = set_geometry(w.grid, traced, w.scale, 1, w.grid.atlas).grid])

ray_block(w, from, to) ==
    generate_terrain([w EXCEPT !.grid = ray_trace_atlas(w.grid, from, to)])

\* remove_block(r), traced = ray_trace_last(r, 6)
remove_block_ray(w, traced) ==
    IF grid_value(w.grid, traced) >= 0 THEN remove_block(w, traced) ELSE w

reset_scale(w) == generate_preview([w EXCEPT !.scale = 1])

\* grappling(r), traced = ray_trace_last(r, 100)
grappling(w, traced) ==
    IF grid_value(w.grid, traced) # -1 THEN remove_block(reset_scale(w), traced) ELSE w

update_ignores_valid(w, p, cur) ==
    LET w1 == [w EXCEPT !.position = p]
    IN  IF w1.grid.recent # cur.key
        THEN generate_terrain([w1 EXCEPT !.grid = update_chunk(w1.grid, cur.key)])
        ELSE w1
update_lists_first(w, p, cur) ==
    LET w1 == [w EXCEPT !.position = p]
    IN  IF cur.is_valid /\ w1.grid.recent # cur.key
        THEN [generate_terrain(w1) EXCEPT !.grid = update_chunk(w1.grid, cur.key)]
        ELSE w1
\* update(cam, dt): update_world_physics leaves the character at p,
\* chunk_key(p) gives cur
update(w, p, cur) ==
    LET w1 == [w EXCEPT !.position = p]
    IN  IF cur.is_valid /\ w1.grid.recent # cur.key
        THEN generate_terrain([w1 EXCEPT !.grid = update_chunk(w1.grid, cur.key)])
        ELSE w1

SetWorldInit(w) ==
    /\ SetTerrainInit(w.t)
    /\ _grid = w.grid
    /\ _view_chunks = w.view_chunks
    /\ _scale = w.scale
    /\ position = w.position

\* the state a world operation returns with
Return(w, name) ==
    /\ SetTerrain(w.t)
    /\ _grid' = w.grid
    /\ _view_chunks' = w.view_chunks
    /\ _scale' = w.scale
    /\ position' = w.position
    /\ wop' = name
    /\ UNCHANGED <<hvars, rvars, mesh_in, ovars>>

\* the world as an operation finds it; calls collects what the operation calls
Entered == [World EXCEPT !.t.calls = <<>>]

NoChunk == [key |-> 0, is_valid |-> FALSE]

InitWorld ==
    /\ NoOthers
    /\ \E grid \in Grids, p \in Positions, loaded \in BOOLEAN :
          /\ inside(p)
          /\ SetWorldInit(NewWorld(grid, p, loaded))
    /\ wop = "world"
    /\ current_chunk = NoChunk
    /\ origin = [gb |-> EmptyVec, pb |-> EmptyVec]
    /\ again = FALSE
    /\ pc = "idle"
    /\ work = <<>>
    /\ begun = EmptyMesh
    /\ touched = {}
    /\ fetched = {}
    /\ mesh_in = EmptyMesh

\* the positions the physics step of one frame can leave the character at
Steps(p) == {p - 1, p, p + 1} \cap Positions

Update ==
    \E p \in Steps(position) : \E cur \in chunk_key(p) :
        /\ Return(update(Entered, p, cur), "update")
        /\ current_chunk' = cur

CharacterWarp ==
    /\ \E p \in Positions : Return([Entered EXCEPT !.position = p], "character_warp")
    /\ current_chunk' = NoChunk

AddBlock ==
    /\ \E traced \in GridCells : Return(add_block(Entered, traced), "add_block")
    /\ current_chunk' = NoChunk

RayBlock ==
    /\ \E from, to \in GridCells : Return(ray_block(Entered, from, to), "ray_block")
    /\ current_chunk' = NoChunk

RemoveBlock ==
    /\ \E traced \in GridCells : Return(remove_block_ray(Entered, traced), "remove_block")
    /\ current_chunk' = NoChunk

Grappling ==
    /\ \E traced \in GridCells : Return(grappling(Entered, traced), "grappling")
    /\ current_chunk' = NoChunk

NextWorld == Update \/ CharacterWarp \/ AddBlock \/ RayBlock \/ RemoveBlock \/ Grappling

SpecWorld == InitWorld /\ [][NextWorld]_vars

\* how often the operation that ran last called upload_geometry
Uploads == Cardinality({j \in 1 .. Len(calls) : calls[j] = "gb.clear"})

\* the cells of the view chunks of a grid, in the order of the view list
view_cells(grid) ==
    LET chunks == get_view_chunks(grid)
    IN  populate_all(EmptyVec, [j \in 1 .. Len(chunks) |-> get_chunk(grid, chunks[j])])

\* the content of the view buffer after an upload of these cells
uploaded(cells) ==
    IF Size(cells) = 0 THEN <<>>
    ELSE <<run_in_order(allocate_mesh_buffer(EmptyMesh, cells), cells, ascending(Size(cells)))>>

\* C8: in world::update, when the character's position has a valid chunk key
\* B that differs from the recent chunk key A, upload_geometry is called
\* exactly once, the recent chunk key is B, and the view list it was called
\* with is the list of the chunks around B; when the key is A, or the
\* position is outside the grid (chunk_key reports no valid key),
\* upload_geometry is not called and the recent key and view list stay.
C8_ChunkChange ==
    [][wop' = "update" =>
          LET A == _grid.recent
              B == current_chunk'.key
          IN  IF current_chunk'.is_valid /\ B # A
              THEN /\ Uploads' = 1
                   /\ _grid'.recent = B
                   /\ _view_chunks' = get_view_chunks(update_chunk(_grid, B))
                   /\ _cell_buffer' = view_cells(update_chunk(_grid, B))
                   /\ _gb'.gpu = uploaded(_cell_buffer')
              ELSE /\ Uploads' = 0
                   /\ _grid'.recent = A
                   /\ _view_chunks' = _view_chunks
                   /\ _gb' = _gb]_vars

\* an update has moved the view to the other end of the grid and uploaded
\* geometry there
C8_Witness ==
    /\ wop = "update"
    /\ current_chunk.is_valid
    /\ Uploads = 1
    /\ _grid.recent = NumChunks - 1
    /\ _gb.gpu # <<>>

\* C20 as claimed: at the return of every world::update the recent chunk key
\* is the key of the chunk that holds the character's position.
C20_RecentIsCurrent ==
    wop = "update" => [key |-> _grid.recent, is_valid |-> TRUE] \in chunk_key(position)

\* C20 amended: at the return of world::update, when chunk_key reported a
\* valid key for the character's position, the position is inside the grid
\* and the recent chunk key is that key; when it reported none, the
\* position is outside the grid and the recent chunk key is the one from
\* before the call.
C20_RecentIfValid ==
    [][wop' = "update" =>
          IF current_chunk'.is_valid
          THEN /\ current_chunk' \in chunk_key(position')
               /\ _grid'.recent = current_chunk'.key
          ELSE /\ ~inside(position')
               /\ _grid'.recent = _grid.recent]_vars

\* an update has left the character beyond the far end of the grid, the
\* recent chunk still being the last chunk of the grid
C20_Witness ==
    /\ wop = "update"
    /\ ~current_chunk.is_valid
    /\ position = 2 * NumChunks
    /\ _grid.recent = NumChunks - 1
    /\ current_chunk.key # _grid.recent

\* C9: at the return of every world operation the view buffer holds the
\* mesh compiled from the grid as it is now (the cells of the chunks around
\* the recent chunk), the view list is the current one, and no operation
\* ended by an exception; so every edit of add_block, ray_block, remove_block
\* and grappling has been followed by generate_terrain before the return.
C9_ViewCurrent ==
    wop # "none" =>
        /\ _view_chunks = get_view_chunks(_grid)
        /\ _gb.gpu = uploaded(view_cells(_grid))
        /\ ~thrown

\* a grappling hit has removed a block in view and left other blocks there
C9_Witness ==
    /\ wop = "grappling"
    /\ Called("pb.upload")
    /\ Uploads = 1
    /\ _gb.gpu # <<>>
    /\ \E c \in GridCells : _grid.cells[c] = -1 /\ c \in {_view_chunks[j] : j \in 1 .. Len(_view_chunks)}

----------------------------------------------------------------------------
(* game::world: the edit cursor.  _scale is <<x, y, z>>, the offsets are    *)
(* <<x, y, z>> of +1 / -1.  The terrain is the point mode build, whose      *)
(* uploads take the preview mesh as it is.  The grid is the row of cells    *)
(* along x, so that of an edit box the cells of its first row are in it.    *)

_pre_max_scale == 5

_pre_max_vol == _pre_max_scale * _pre_max_scale * _pre_max_scale

\* the increments dx, dy, dz the scale setters are called with
MaxStep == 2

Cursor == [t |-> Terrain, grid |-> _grid, view_chunks |-> _view_chunks, scale |-> _scale,
           cached |-> _cached_offset, preview |-> _preview_offset,
           edit_mode |-> _edit_mode, edited |-> <<>>]

generate_terrain_gs(w) ==
    LET chunks == get_view_chunks(w.grid)
    IN  [w EXCEPT !.view_chunks = chunks,
                  !.t = upload_geometry_gs(w.t, [j \in 1 .. Len(chunks) |->
                                                    get_chunk(w.grid, chunks[j])])]

\* generate_preview: lock the offset, build the preview mesh, upload it
generate_preview_gs(w) ==
    [w EXCEPT !.preview = w.cached,
              !.t = upload_preview_gs(w.t, atlas_preview(w.grid, w.cached, w.scale))]

\* update_uniform(cam): fx, fz tell whether cam.get_forward() has x >= 0, z >= 0
update_uniform(w, fx, fz) ==
    [w EXCEPT !.cached = <<IF fx THEN 1 ELSE -1, w.cached[2], IF fz THEN 1 ELSE -1>>]

toggle_edit_mode(w) == [w EXCEPT !.edit_mode = ~w.edit_mode]

set_scale_always_grows(w, a, d) ==
    IF w.edit_mode
    THEN IF w.scale[a] < _pre_max_scale
         THEN generate_preview_gs([w EXCEPT !.scale[a] = @ + d])
         ELSE w
    ELSE w
\* set_scale_x(dx), set_scale_y(dy), set_scale_z(dz): a = 1, 2, 3
set_scale(w, a, d) ==
    IF w.edit_mode
    THEN IF w.cached[a] # w.preview[a] THEN generate_preview_gs(w)
         ELSE IF w.scale[a] < _pre_max_scale
              THEN generate_preview_gs([w EXCEPT !.scale[a] = @ + d])
              ELSE w
    ELSE w

reset_scale_gs(w) == generate_preview_gs([w EXCEPT !.scale = <<1, 1, 1>>])

set_atlas_id(w, id) == generate_preview_gs([w EXCEPT !.grid.atlas = id])

add_block_live_offset(w, traced) ==
    generate_terrain_gs(
        [w EXCEPT !.grid = set_geometry(w.grid, traced, w.scale[1], w.cached[1],
                                        w.grid.atlas).grid,
                  !.edited = [point |-> traced, scale |-> w.scale, offset |-> w.cached,
                              value |-> w.grid.atlas]])
\* add_block(r), traced = ray_trace_prev(r, 6)
add_block_gs(w, traced) ==
    generate_terrain_gs(
        [w EXCEPT !.grid = set_geometry(w.grid, traced, w.scale[1], w.preview[1],
                                        w.grid.atlas).grid,
                  !.edited = [point |-> traced, scale |-> w.scale, offset |-> w.preview,
                              value |-> w.grid.atlas]])

\* remove_block(point, direction)
remove_block_gs(w, point) ==
    LET set == set_geometry(w.grid, point, w.scale[1], w.preview[1], -1)
        w1 == [w EXCEPT !.grid = set.grid,
                        !.edited = [point |-> point, scale |-> w.scale,
                                    offset |-> w.preview, value |-> -1]]
    IN  IF set.count > 0 THEN generate_terrain_gs(w1) ELSE w1

\* remove_block(r), traced = ray_trace_last(r, 6)
remove_block_ray_gs(w, traced) ==
    IF grid_value(w.grid, traced) >= 0 THEN remove_block_gs(w, traced) ELSE w

\* grappling(r), traced = ray_trace_last(r, 100)
grappling_gs(w, traced) ==
    IF grid_value(w.grid, traced) # -1 THEN remove_block_gs(reset_scale_gs(w), traced) ELSE w

\* the world after construction on one of the grids, the character loaded
\* from a saved state
InitOn(grids) ==
    /\ \E grid \in grids :
          LET w == generate_terrain_gs(generate_preview_gs(
                       [t |-> NewTerrain, grid |-> grid, view_chunks |-> <<>>,
                        scale |-> <<1, 1, 1>>, cached |-> <<1, 1, 1>>,
                        preview |-> <<1, 1, 1>>, edit_mode |-> FALSE, edited |-> <<>>]))
          IN  /\ SetTerrainInit(w.t)
              /\ _grid = w.grid
              /\ _view_chunks = w.view_chunks
              /\ _scale = w.scale
              /\ _cached_offset = w.cached
              /\ _preview_offset = w.preview
              /\ _edit_mode = w.edit_mode
              /\ edited = w.edited
    /\ NoCopy
    /\ NoGun
    /\ NoPlayer
    /\ position = 1
    /\ wop = "world"
    /\ current_chunk = NoChunk
    /\ origin = [gb |-> EmptyVec, pb |-> EmptyVec]
    /\ again = FALSE
    /\ pc = "idle"
    /\ work = <<>>
    /\ begun = EmptyMesh
    /\ touched = {}
    /\ fetched = {}
    /\ mesh_in = EmptyMesh

\* the state a cursor or edit operation returns with
Returned(w, name) ==
    /\ SetTerrain(w.t)
    /\ _grid' = w.grid
    /\ _view_chunks' = w.view_chunks
    /\ _scale' = w.scale
    /\ _cached_offset' = w.cached
    /\ _preview_offset' = w.preview
    /\ _edit_mode' = w.edit_mode
    /\ edited' = w.edited
    /\ wop' = name
    /\ UNCHANGED <<hvars, rvars, mesh_in, position, current_chunk, cvars, gvars, pvars>>

UpdateUniform == \E fx, fz \in BOOLEAN : Returned(update_uniform(Cursor, fx, fz), "update_uniform")

ToggleEditMode == Returned(toggle_edit_mode(Cursor), "toggle_edit_mode")

SetScaleX == \E dx \in 1 .. MaxStep : Returned(set_scale(Cursor, 1, dx), "set_scale_x")

SetScaleY == \E dy \in 1 .. MaxStep : Returned(set_scale(Cursor, 2, dy), "set_scale_y")

SetScaleZ == \E dz \in 1 .. MaxStep : Returned(set_scale(Cursor, 3, dz), "set_scale_z")

ResetScale == Returned(reset_scale_gs(Cursor), "reset_scale")

SetAtlasId == \E id \in {0} : Returned(set_atlas_id(Cursor, id), "set_atlas_id")

AddBlockGS == \E traced \in GridCells : Returned(add_block_gs(Cursor, traced), "add_block")

RemoveBlockGS ==
    \E traced \in GridCells : Returned(remove_block_ray_gs(Cursor, traced), "remove_block")

GrapplingGS == \E traced \in GridCells : Returned(grappling_gs(Cursor, traced), "grappling")

\* grappling(r) with a ray that ends in the cell the character stands in
GrapplingNear == Returned(grappling_gs(Cursor, snap(position)), "grappling")

\* the cursor operations, on the grid full of blocks
NextCursor ==
    \/ UpdateUniform \/ ToggleEditMode \/ SetScaleX \/ SetScaleY \/ SetScaleZ
    \/ ResetScale \/ SetAtlasId \/ GrapplingNear

SpecCursor == InitOn({[cells |-> [c \in GridCells |-> 0], recent |-> 0, atlas |-> 0]})
                  /\ [][NextCursor]_vars

\* the edits of the row grid and the cursor operations that act along x
NextEdit ==
    \/ UpdateUniform \/ ToggleEditMode \/ SetScaleX \/ ResetScale \/ SetAtlasId
    \/ AddBlockGS \/ RemoveBlockGS \/ GrapplingGS

SpecEdit == InitOn(Grids) /\ [][NextEdit]_vars

\* C21: in edit mode a step of set_scale_x, set_scale_y or set_scale_z (axis
\* a) taken while the cached offset differs on that axis from the preview
\* offset leaves the scale as it is, locks the cached offset and uploads the
\* preview mesh built with it; taken while the two agree on that axis it
\* changes the scale on that axis only, by the increment if at all, and if
\* the scale changed it uploads the preview of the new scale.  Outside edit
\* mode it changes nothing.
C21_ReAnchor ==
    [][\A a \in 1 .. 3 :
          wop' = <<"set_scale_x", "set_scale_y", "set_scale_z">>[a] =>
              LET built == <<generate_indices(atlas_preview(_grid, _cached_offset, _scale'))>>
              IN  IF ~_edit_mode
                  THEN _scale' = _scale /\ _preview_offset' = _preview_offset /\ _pb' = _pb
                  ELSE IF _cached_offset[a] # _preview_offset[a]
                  THEN /\ _scale' = _scale
                       /\ _preview_offset' = _cached_offset
                       /\ _pb'.gpu = built
                       /\ calls' = <<"pb.clear", "pb.add_mesh", "pb.bind", "pb.upload">>
                  ELSE /\ \A b \in 1 .. 3 : b # a => _scale'[b] = _scale[b]
                       /\ \/ _scale' = _scale /\ _pb' = _pb
                                /\ _preview_offset' = _preview_offset
                          \/ /\ _scale'[a] - _scale[a] \in 1 .. MaxStep
                             /\ _scale[a] < _pre_max_scale
                             /\ _preview_offset' = _cached_offset
                             /\ _pb'.gpu = built]_vars

\* set_scale_z has re-anchored the preview to the -z side instead of growing
\* the scale
C21_Witness ==
    /\ wop = "set_scale_z"
    /\ _edit_mode
    /\ _scale[3] = 1
    /\ _preview_offset[3] = -1
    /\ _pb.gpu # <<>> /\ _pb.gpu[1].vertex[0][3] = -1

\* C24: after any sequence of set_scale_x, set_scale_y, set_scale_z,
\* reset_scale and grappling every component of _scale lies in
\* 1 .. _pre_max_scale, and the preview box has at most _pre_max_vol cells.
C24_ScaleBounded ==
    /\ \A a \in 1 .. 3 : _scale[a] >= 1 /\ _scale[a] <= _pre_max_scale
    /\ _scale[1] * _scale[2] * _scale[3] <= _pre_max_vol

\* set_scale_x has taken the x scale beyond _pre_max_scale and the preview
\* box, at the largest y and z scale, beyond _pre_max_vol cells
C24_Witness ==
    /\ wop = "set_scale_x"
    /\ _scale[1] = _pre_max_scale + 1
    /\ _scale[2] = _pre_max_scale /\ _scale[3] = _pre_max_scale
    /\ Size(_pb.gpu[1].vertex) = _scale[1] + _scale[2] + _scale[3] - 2

----------------------------------------------------------------------------
(* Claims about the compiled mesh, checked under Spec *)

\* a handler has finished and left its result
Finished == pc = "idle" /\ op \in {"upload_geometry", "upload_preview"}


\* C1: in box mode, after upload_geometry or upload_preview has compiled a cell
\* buffer of N cells, vertex, uv and normal have 24N elements, index has 36N,
\* and every index value is below 24N.
C1_BoxSizes ==
    Finished =>
        /\ Size(_parent.vertex) = 24 * N
        /\ Size(_parent.uv) = 24 * N
        /\ Size(_parent.normal) = 24 * N
        /\ Size(_parent.index) = 36 * N
        /\ DOMAIN _parent.vertex = 0 .. 24 * N - 1
        /\ DOMAIN _parent.index = 0 .. 36 * N - 1
        /\ \A i \in DOMAIN _parent.index : _parent.index[i] >= 0 /\ _parent.index[i] < 24 * N

\* a preview compile of the largest buffer, shorter view geometry uploaded before
C1_Witness ==
    /\ Finished
    /\ op = "upload_preview"
    /\ N = MaxCells
    /\ _gb.gpu # <<>>
    /\ Size(origin.gb) < N

\* C3: a compile of a cell sequence ends with the same four arrays as the mesh
\* an earlier compile of that sequence left on the GPU of either target,
\* whichever sequences were compiled since and in whichever order the work
\* items of either compile ran.
C3_Repeatable ==
    [][(pc' = "idle") =>
          \A b \in Holding(_cell_buffer') :
              _parent' = (IF b = "gb" THEN _gb.gpu ELSE _pb.gpu)[1]]_vars

\* a finished compile that repeated an earlier one with another in between
C3_Witness == Finished /\ again /\ N = MaxCells

\* C4: for every cell ordinal c the 36 indices at [36c, 36c + 36) all lie in
\* [24c, 24c + 24), so no index of one cell refers to a vertex of another.
C4_OwnBlock ==
    Finished =>
        \A c \in 0 .. N - 1 :
            \A j \in 36 * c .. 36 * c + 35 :
                /\ j \in DOMAIN _parent.index
                /\ _parent.index[j] >= 24 * c
                /\ _parent.index[j] < 24 * c + 24

\* a view compile of more than one cell
C4_Witness == Finished /\ op = "upload_geometry" /\ N >= 2

\* the parallel run has executed every block of every work item
Joined == pc = "run" /\ \A i \in DOMAIN work : work[i] = 4

\* C2: within one compile the work item set_cell(i) writes only vertex, uv and
\* normal slots [24i, 24i + 24) and index slots [36i, 36i + 36) and reads only
\* cell i; no slot is written by two work items; and however the blocks of the
\* work items were interleaved, the run ends with the four arrays that running
\* the items one after the other over [0, N) gives.
C2_Disjoint ==
    /\ \A w \in touched :
           /\ w[1] \in {"vertex", "uv", "normal"} =>
                  w[2] >= 24 * w[3] /\ w[2] < 24 * w[3] + 24
           /\ w[1] = "index" => w[2] >= 36 * w[3] /\ w[2] < 36 * w[3] + 36
           /\ w[2] \in DOMAIN _parent[w[1]]
           /\ \A i \in DOMAIN work : <<w[1], w[2], i>> \in touched => i = w[3]
    /\ \A r \in fetched : r[2] = r[1]
    /\ Joined => _parent = run_in_order(begun, _cell_buffer, ascending(N))

\* a joined run over two different cells that has written every slot of the
\* allocated mesh
C2_Witness ==
    /\ Joined
    /\ N >= 2
    /\ _cell_buffer[0] # _cell_buffer[1]
    /\ Cardinality(touched) = 108 * N
    /\ begun # EmptyMesh

\* C15: upload_geometry of a chunk list leaves in the cell buffer exactly the
\* cells of the listed chunks, chunk after chunk in list order: its length
\* is the sum of the chunk sizes, so nothing of an earlier compile is left
\* over, and chunk c starts where chunk c - 1 ended.  When the run has
\* ended, the 24 vertices at [24i, 24i + 24) of the compiled and uploaded
\* mesh are the corners of the cube around cell i of that buffer.
C15_ListOrder ==
    [][/\ \A children \in ChunkLists :
              Begin(children) =>
                  LET start[c \in 1 .. Len(children) + 1] ==
                          IF c = 1 THEN 0 ELSE start[c - 1] + Size(children[c - 1].vertex)
                  IN  /\ DOMAIN _cell_buffer' = 0 .. start[Len(children) + 1] - 1
                      /\ \A c \in 1 .. Len(children) :
                             \A k \in 0 .. Size(children[c].vertex) - 1 :
                                 _cell_buffer'[start[c] + k] = children[c].vertex[k]
       /\ pc = "run" /\ pc' = "idle" =>
              /\ _cell_buffer' = _cell_buffer
              /\ N > 0 => _gb'.gpu = <<_parent>>
              /\ \A i \in 0 .. N - 1 :
                     {<<_parent.vertex[24 * i + j][1], _parent.vertex[24 * i + j][2],
                        _parent.vertex[24 * i + j][3]>> : j \in 0 .. 23}
                         = {<<_cell_buffer[i][1] + dx, _cell_buffer[i][2] + dy,
                              _cell_buffer[i][3] + dz>> :
                                dx \in {-1, 1}, dy \in {-1, 1}, dz \in {-1, 1}}]_vars

\* the run of a view upload of two different cells has finished every item,
\* after a view upload that compiled two cells in another order
C15_Witness ==
    /\ Joined
    /\ N = 2 /\ _cell_buffer[0] # _cell_buffer[1]
    /\ Size(origin.gb) = 2 /\ origin.gb # _cell_buffer
    /\ _gb.data = <<>> /\ _gb.gpu # <<>> /\ _parent.vertex[47] # Zero4

\* C17: within upload_geometry a step that adds the mesh to the view buffer,
\* binds or uploads it is taken only when the run over [0, N) has a work
\* item for every cell of the buffer, every item has executed all its
\* blocks, and every slot of the mesh has been written; the mesh added is
\* the mesh as the finished run left it.
C17_AfterJoin ==
    [][pc = "run" /\ (_gb' # _gb \/ calls' # calls) =>
          /\ DOMAIN work = 0 .. N - 1
          /\ \A i \in 0 .. N - 1 : work[i] = 4
          /\ {<<w[1], w[2]>> : w \in touched}
                 = {<<a, k>> : a \in {"vertex", "uv", "normal"}, k \in 0 .. 24 * N - 1}
                       \cup {<<"index", k>> : k \in 0 .. 36 * N - 1}
          /\ N > 0 => _gb'.data = <<_parent>> /\ _gb'.gpu = <<_parent>>
          /\ calls = <<"gb.clear">>]_vars

\* a view upload of the largest buffer has ended with its mesh on the GPU,
\* replacing a smaller one
C17_Witness ==
    /\ Finished /\ op = "upload_geometry"
    /\ N = MaxCells
    /\ Called("gb.add_mesh") /\ Called("gb.upload")
    /\ _gb.gpu = <<_parent>>

\* C18: while the run of upload_geometry over N cells is open, the mesh the
\* run started on has the lengths (24N, 24N, 24N, 36N), it was given them
\* before any work item wrote (nothing written means the mesh is still the
\* one the run started on), the four lengths are still those, and every
\* write made so far was made by an item i < N into a slot inside the
\* length of its array.
C18_PreSized ==
    pc = "run" =>
        LET lens(m) == <<Size(m.vertex), Size(m.uv), Size(m.normal), Size(m.index)>>
        IN  /\ lens(begun) = <<24 * N, 24 * N, 24 * N, 36 * N>>
            /\ lens(_parent) = lens(begun)
            /\ touched = {} => _parent = begun
            /\ \A w \in touched :
                   /\ w[3] >= 0 /\ w[3] < N
                   /\ w[2] >= 0 /\ w[2] < Size(begun[w[1]])

\* a run over two cells, started on a mesh that had to grow, with one item
\* finished and the other one half way
C18_Witness ==
    /\ pc = "run"
    /\ N = 2
    /\ Size(origin.gb) = 1
    /\ work[1] = 4 /\ work[0] = 2
    /\ Cardinality(touched) = 108 + 48

\* what a handler that ends now has uploaded: the mesh it compiled, or
\* nothing when there was no cell
Compiled == IF N = 0 THEN <<>> ELSE <<_parent>>

\* C12: a step that ends upload_preview leaves the view buffer as it was and
\* leaves in the preview buffer exactly the mesh this call compiled; a step
\* that ends upload_geometry leaves the preview buffer as it was and leaves
\* in the view buffer exactly the mesh this call compiled; the steps inside
\* upload_geometry change neither the preview buffer nor what the view
\* buffer holds on the GPU.  So each buffer holds the whole mesh of the last
\* upload addressed to it and nothing of any other upload.
C12_Independent ==
    [][/\ pc' = "idle" /\ op' = "upload_preview" =>
              /\ _gb' = _gb
              /\ _pb'.gpu = Compiled' /\ _pb'.data = Compiled'
       /\ pc' = "idle" /\ op' = "upload_geometry" =>
              /\ _pb' = _pb
              /\ _gb'.gpu = Compiled' /\ _gb'.data = Compiled'
       /\ pc' = "run" => _pb' = _pb /\ _gb'.gpu = _gb.gpu]_vars

\* after a preview upload both buffers hold geometry, compiled from
\* different cells
C12_Witness ==
    /\ Finished /\ op = "upload_preview"
    /\ _gb.gpu # <<>> /\ _pb.gpu # <<>>
    /\ origin.gb # origin.pb
    /\ _gb.gpu # _pb.gpu

\* the last handler compiled no cell
ZeroCells == Finished /\ N = 0

Target == IF op = "upload_geometry" THEN _gb ELSE _pb

Prefix == IF op = "upload_geometry" THEN "gb" ELSE "pb"


====
